---- MODULE Spec2Model ----
(***************************************************************************)
(* Omni-Agent: the auto-triggered bidirectional multimodal stream          *)
(* (MultiModalServicer.ProcessStream, src/src/server/grpc/servicer.py).    *)
(*                                                                         *)
(* One stream is four cooperating parties on one asyncio loop plus the STT *)
(* SDK's callback thread:                                                  *)
(*   - the request reader   (request_processor, one task),                 *)
(*   - the LLM workers      (llm_worker, one task per Start frame),        *)
(*   - the output loop      (the body of the async generator itself),      *)
(*   - the STT callbacks    (on_partial / on_final / on_error).            *)
(* A step of the model is the code a task runs between two suspension      *)
(* points (await / yield); task.cancel() sets a flag that the cancelled    *)
(* task sees at its next resumption, as asyncio delivers CancelledError.   *)
(*                                                                         *)
(* Text is a sequence of one-character strings, so that strip() and        *)
(* string concatenation are computed and not assumed.                      *)
(*                                                                         *)
(* QwenLlmService.chat_stream (src/src/reasoning/llm/qwen.py:157-264)      *)
(* iterates the SDK's blocking generator and never awaits: a worker's turn *)
(* holds the event loop from the dequeue of its sentence to its next wait, *)
(* and only the SDK thread's callbacks run meanwhile.                      *)
(*                                                                         *)
(* Further components are modelled on their own, each with its own         *)
(* specification over its own variables:                                   *)
(*   - SessionSpec, FairSessionSpec: SessionManager and Session            *)
(*     (src/src/orchestrator/session.py), caller threads under the lock;   *)
(*   - DriverSpec: one AliyunSttService and its keep-alive loop            *)
(*     (src/src/perception/stt/aliyun.py), in whole seconds;               *)
(*   - TriggerSpec: one TriggerEngine (src/src/orchestrator/trigger.py)    *)
(*     called on every kind of perception event;                           *)
(*   - OrchSpec: one run of Orchestrator.execute                           *)
(*     (src/src/orchestrator/engine.py) on one Task, its consumer taking   *)
(*     every event it yields;                                              *)
(*   - ProcessSpec: unary Process calls (servicer.py:256-373), one         *)
(*     request at a time;                                                  *)
(*   - ContextSpec: the tasks of one Session and its derived context       *)
(*     (session.py:157-183), message lists as objects on a heap.           *)
(***************************************************************************)
EXTENDS Integers, Sequences, FiniteSets, TLC

\* ------------------------------------------------------------------ bounds
MaxStarts == 2      \* Start frames the client sends on one stream
MaxSttEvents == 2   \* STT callbacks (partial, final, error) on one stream
MaxChunks == 2      \* chunks the LLM yields on one stream, over all turns
MaxFaults == 1      \* departures from the expected run on one stream: a repeated
                    \* Start frame, a failure of STT, LLM or transport
MaxCreates == 2     \* sessions one SessionManager creates
MaxTime == 2        \* seconds the clock of the SessionManager advances
MaxTasks == 1       \* tasks created in one session
MaxClock == 25      \* seconds the clock of a lone STT driver advances
ClockStep == 5      \* seconds between two instants at which a lone STT driver is observed
MaxErrors == 2      \* errors the STT upstream reports to a lone driver
MaxSttItems == 2    \* STT callbacks during one run of Orchestrator.execute
MaxInputs == 2      \* inputs of one unary Process request
MaxSessionTasks == 3 \* tasks created in the session whose context is read
MaxCompletions == 3 \* results written to the tasks of that session

\* ------------------------------------------------------------------ program constants
QueueMaxsize == 0   \* asyncio.Queue() at servicer.py:400: maxsize 0, which asyncio reads as no limit
KEEPALIVE_INTERVAL == 10    \* aliyun.py:28, seconds

\* ------------------------------------------------------------------ inputs
FinalTexts == { <<" ">>, <<" ", "a">> }
PartialTexts == { <<"a">> }         \* result.text of an STT partial
Deltas == { <<>>, <<"x">> }         \* chunk.delta of an LLM chunk (<<>>: an empty delta)
SysPrompts == { <<"s">> }           \* config.system_prompt of a Start frame (<<>>: unset)

Slots == 1..MaxStarts

VARIABLES
    stream_ended,         \* servicer.py:397
    output_queue,         \* servicer.py:400, sequence of frames
    pending_sentences,    \* servicer.py:402, sequence of [sid, text]
    conversation_history, \* servicer.py:404, sequence of [role, content]
    answer_index,         \* servicer.py:406
    config,               \* servicer.py:394/529, the system prompt of the last Start
    stt,                  \* the AliyunSttService objects created, by creation order
    stt_service,          \* servicer.py:396, index into stt, 0 for None
    workers,              \* the llm_worker tasks created, by creation order
    llm_worker_task,      \* servicer.py:408, index into workers, 0 for None
    rpc,                  \* where request_processor is
    readerCancelled,      \* request_task.cancel() was called and not yet delivered
    mpc,                  \* where the generator body (output loop, finally) is
    delivered,            \* the frames yielded to the client, in order
    nStt,                 \* STT callbacks made so far
    nChunks,              \* LLM chunks yielded so far
    nFaults,              \* failures injected so far
    \* ---- history the properties read, never read by an action's guard
    enq,                  \* every frame put on output_queue, in put order
    pushed,               \* every sentence put on pending_sentences, in put order
    directErr,            \* the generator yielded its own Error frame (servicer.py:634)
    disconnected,         \* the client went away before the generator finished
    waitTimedOut,         \* the reader's 60 s wait for the worker expired
    endSnap,              \* taken when END_AUDIO is handled
    cancelSnap,           \* taken when CANCEL is handled
    \* ---- SessionManager, src/src/orchestrator/session.py
    sessions,             \* session.py:226, the keys of self._sessions
    session,              \* the Session objects ever created, by session id
    max_sessions,         \* session.py:229
    lock,                 \* session.py:227, the thread that holds self._lock, 0 for none
    thread,               \* where each caller thread of the manager is
    now,                  \* datetime.now(timezone.utc)
    \* ---- history the properties read
    lastCreate,           \* what the last create call saw and did
    lastGetActive,        \* what the last get_active call saw and returned
    swept,                \* the ids _cleanup_expired has removed from the table
    \* ---- one AliyunSttService on its own, src/src/perception/stt/aliyun.py
    stt_running,          \* aliyun.py:44, self._running
    recognition,          \* aliyun.py:43, whether self._recognition is set
    last_audio_time,      \* aliyun.py:45
    keepalive_task,       \* aliyun.py:46, where _keepalive_loop is
    wake_at,              \* when the loop's asyncio.sleep is due
    clock,                \* time.time(), in seconds
    silence_frames,       \* history: SILENCE_FRAMEs sent since the last real audio
    stt_session_id,       \* aliyun.py:41, "none" for None
    life,                 \* history: what the driver has been through
    lastStop,             \* history: what the last stop_session call found and did
    lastSend,             \* history: what the last send_audio call found and did
    mock_running,         \* MockSttService._running, aliyun.py:336
    transport_errors,     \* history: errors the upstream has reported
    on_error_calls,       \* history: calls of the on_error callback
    errored,              \* history: the upstream reported an error in this session
    sent_after_error,     \* history: a frame went upstream after that error
    \* ---- one TriggerEngine (src/src/orchestrator/trigger.py)
    use_llm_judge,        \* trigger.py:24
    llm_service,          \* trigger.py:25, whether self._llm_service is set
    trig_task,            \* the task of the call
    trig_event,           \* the PerceptionEvent of the call
    trig_result,          \* history: what should_invoke_agent did with them
    \* ---- one run of Orchestrator.execute (src/src/orchestrator/engine.py)
    task,                 \* the Task of the run, task.py:110-135, with its history
    flow,                 \* the branch of execute the task's modalities select
    use_llm_trigger,      \* engine.py:23
    opc,                  \* where execute is
    after_item,           \* what _process_audio_stream does when resumed
    result_queue,         \* engine.py:132
    send_task,            \* engine.py:182
    yielded,              \* history: the events the run has yielded
    raised,               \* history: the exception a step of the run raised
    nItems,               \* STT callbacks so far
    nDeltas,              \* chunks of the LLM call under way
    full_content,         \* engine.py:252
    prompts,              \* history: the buffer each LLM invocation built its prompt from
    \* ---- one unary Process call (servicer.py:256-373)
    request,              \* the MultiModalRequest: inputs and config.system_prompt
    mm_response,          \* history: the response and what the call did for it
    \* ---- the tasks of one Session and the lists they hold (session.py:128-183)
    tasks,                \* session.py:140; each task's result and context are list ids
    heap,                 \* the message lists that exist, by id
    context_log,          \* history: the last reading of Session.context
    completions           \* history: results written so far

streamVars == << stream_ended, output_queue, pending_sentences, conversation_history,
           answer_index, config, stt, stt_service, workers, llm_worker_task,
           rpc, readerCancelled, mpc, delivered, nStt, nChunks, nFaults,
           enq, pushed, directErr, disconnected, waitTimedOut, endSnap, cancelSnap >>

sessionVars == << sessions, session, max_sessions, lock, thread, now,
                  lastCreate, lastGetActive, swept >>

driverVars == << stt_running, recognition, last_audio_time, keepalive_task, wake_at,
                 clock, silence_frames, stt_session_id, life, lastStop, lastSend,
                 mock_running, transport_errors, on_error_calls, errored,
                 sent_after_error >>

\* what the driver's send_audio and the upstream's callbacks write
sendHist == << lastSend, transport_errors, on_error_calls, errored, sent_after_error >>

\* the attributes of an AliyunSttService that stop_session writes
driverState == << stt_running, recognition, keepalive_task, stt_session_id >>

triggerVars == << use_llm_judge, llm_service, trig_task, trig_event, trig_result >>

\* the components that are modelled as calls on one object
orchVars == << task, flow, use_llm_trigger, opc, after_item, result_queue, send_task,
              yielded, raised, nItems, nDeltas, full_content, prompts >>

processVars == << request, mm_response >>

contextVars == << tasks, heap, context_log, completions >>

restVars == << triggerVars, orchVars, processVars, contextVars >>

\* what a step of a ProcessStream stream never touches
offStream == << sessionVars, driverVars, restVars >>

\* what a step of the SessionManager never touches
offSession == << streamVars, driverVars, restVars >>

\* what a step of an AliyunSttService on its own never touches
offDriver == << streamVars, sessionVars, restVars >>

\* what a call on a TriggerEngine never touches
offTrigger == << streamVars, sessionVars, driverVars, orchVars, processVars, contextVars >>

\* what a step of Orchestrator.execute never touches
offOrch == << streamVars, sessionVars, driverVars, triggerVars, processVars, contextVars >>

\* what a unary Process call never touches
offProcess == << streamVars, sessionVars, driverVars, triggerVars, orchVars, contextVars >>

\* what a call on a Session's tasks never touches
offContext == << streamVars, sessionVars, driverVars, triggerVars, orchVars, processVars >>

vars == << streamVars, sessionVars, driverVars, restVars >>

\* ------------------------------------------------------------------ text
IsSpace(c) == c = " "

RECURSIVE LStrip(_)
LStrip(s) == IF s # <<>> /\ IsSpace(Head(s)) THEN LStrip(Tail(s)) ELSE s

RECURSIVE RStrip(_)
RStrip(s) == IF s # <<>> /\ IsSpace(s[Len(s)]) THEN RStrip(SubSeq(s, 1, Len(s) - 1)) ELSE s

\* str.strip()
Strip(s) == RStrip(LStrip(s))

\* ------------------------------------------------------------------ frames
\* MultiModalStreamResponse. Every frame carries every field, unused ones at
\* their protobuf default; turn is the put-order number of the sentence a
\* worker frame belongs to (0 for the others) and is not on the wire.
Frame(k, t, f, n, r, u) ==
    [kind |-> k, text |-> t, flag |-> f, num |-> n, reason |-> r, turn |-> u]

ReadyFrame == Frame("ready", <<>>, FALSE, 0, "", 0)
SttFrame(text, is_final) == Frame("stt", text, is_final, 0, "", 0)
LlmFrame(delta, index, u) == Frame("llm", delta, FALSE, index, "", u)
SentenceCompleteFrame(text, u) == Frame("complete", text, FALSE, 0, "sentence_complete", u)
StopFrame == Frame("complete", <<>>, FALSE, 0, "stop", 0)
ErrorFrame(code, recoverable) == Frame("error", <<>>, recoverable, code, "", 0)
\* the Error frame of a failed LLM turn, servicer.py:510-516
LlmErrorFrame(u) == [ErrorFrame(5001, TRUE) EXCEPT !.turn = u]

Msg(role, content) == [role |-> role, content |-> content]

\* ------------------------------------------------------------------ state
\* a worker's locals; seen is history, the deltas chat_stream has yielded in
\* the turn under way
IdleWorker ==
    [pc |-> "none", cancel |-> FALSE, sid |-> 0, sentence |-> <<>>, messages |-> <<>>,
     full_response |-> <<>>, token_index |-> 0, answer_idx |-> 0, seen |-> <<>>]

NoSnap == [done |-> FALSE, enqLen |-> 0, delLen |-> 0, pending |-> {}]

\* ---- the SessionManager before its first call
Threads == 1..2                     \* caller threads of one SessionManager
SessionIds == 1..MaxCreates         \* str(uuid.uuid4()), by creation order
Timeouts == { 1 }                   \* config.timeout_seconds of a created session

NoSession ==
    [status |-> "none", created_at |-> 0, updated_at |-> 0, expires_at |-> 0,
     timeout_seconds |-> 0, tasks_count |-> 0]

IdleThread == [pc |-> "idle", id |-> 0, found |-> FALSE]

NoCreate == [done |-> FALSE, raised |-> FALSE, before |-> {}, removable |-> {}, after |-> {}]

NoGetActive == [done |-> FALSE, remaining |-> 0, returned |-> FALSE]

\* SessionManager.__init__, session.py:218-231, with no call made yet
ManagerInit(max) ==
    /\ sessions = {}
    /\ session = [i \in SessionIds |-> NoSession]
    /\ max_sessions = max
    /\ lock = 0
    /\ thread = [t \in Threads |-> IdleThread]
    /\ now = 0
    /\ lastCreate = NoCreate
    /\ lastGetActive = NoGetActive
    /\ swept = {}

\* the locals of process_stream before its first step, servicer.py:386-408
StreamInit ==
    /\ stream_ended = FALSE
    /\ output_queue = <<>>
    /\ pending_sentences = <<>>
    /\ conversation_history = <<>>
    /\ answer_index = 0
    /\ config = <<>>
    /\ stt = [i \in Slots |-> "none"]
    /\ stt_service = 0
    /\ workers = [i \in Slots |-> IdleWorker]
    /\ llm_worker_task = 0
    /\ rpc = "read"
    /\ readerCancelled = FALSE
    /\ mpc = "loop"
    /\ delivered = <<>>
    /\ nStt = 0
    /\ nChunks = 0
    /\ nFaults = 0
    /\ enq = <<>>
    /\ pushed = <<>>
    /\ directErr = FALSE
    /\ disconnected = FALSE
    /\ waitTimedOut = FALSE
    /\ endSnap = NoSnap
    /\ cancelSnap = NoSnap

NoStop == [done |-> FALSE, life |-> "new", upstream |-> FALSE, same |-> TRUE]

NoSend == [done |-> FALSE, impl |-> "aliyun", running |-> FALSE, at |-> 0, answer |-> "none",
           forwarded |-> FALSE, on_error |-> FALSE, raised |-> FALSE]

\* AliyunSttService.__init__, aliyun.py:30-46
DriverInit ==
    /\ stt_running = FALSE
    /\ recognition = FALSE
    /\ last_audio_time = 0
    /\ keepalive_task = "none"
    /\ wake_at = 0
    /\ clock = 0
    /\ silence_frames = 0
    /\ stt_session_id = "none"
    /\ life = "new"
    /\ lastStop = NoStop
    /\ lastSend = NoSend
    /\ mock_running = FALSE
    /\ transport_errors = 0
    /\ on_error_calls = 0
    /\ errored = FALSE
    /\ sent_after_error = FALSE

\* a PerceptionEvent, events.py:28-41, with the fields the engine reads and
\* one it does not
PerceptionEvent(modality, stage, content, confidence) ==
    [modality |-> modality, stage |-> stage, content |-> content,
     confidence |-> confidence]

NoResult == [done |-> FALSE, value |-> FALSE, raised |-> FALSE, judged |-> FALSE,
             failed |-> FALSE]

\* TriggerEngine.__init__, trigger.py:19-25, and a call not yet made
TriggerInit(judge, tid, event) ==
    /\ use_llm_judge = judge
    /\ llm_service = FALSE
    /\ trig_task = tid
    /\ trig_event = event
    /\ trig_result = NoResult

\* Task(...), task.py:110-135; writes and left_terminal are history
NewTask ==
    [status |-> "pending", perception_buffer |-> <<>>, steps |-> 0,
     result |-> [set |-> FALSE, content |-> <<>>], error |-> "none",
     result_writes |-> 0, error_writes |-> 0, left_terminal |-> FALSE]

\* a Task and an Orchestrator, engine.py:23-29, before execute is called
OrchInit(f, judge) ==
    /\ task = NewTask
    /\ flow = f
    /\ use_llm_trigger = judge
    /\ opc = "new"
    /\ after_item = "loop"
    /\ result_queue = <<>>
    /\ send_task = "none"
    /\ yielded = <<>>
    /\ raised = "none"
    /\ nItems = 0
    /\ nDeltas = 0
    /\ full_content = <<>>
    /\ prompts = <<>>

NoResponse ==
    [done |-> FALSE, outputs |-> <<>>, finish_reason |-> "", assembled |-> FALSE,
     messages |-> <<>>, llm_invoked |-> FALSE]

\* a request that has reached Process, servicer.py:256-271
ProcessInit(inputs, system_prompt) ==
    /\ request = [inputs |-> inputs, system_prompt |-> system_prompt]
    /\ mm_response = NoResponse

NoReading == [done |-> FALSE, messages |-> <<>>, mutated |-> FALSE]

\* a new Session, session.py:140: no tasks, and no list allocated yet
ContextInit ==
    /\ tasks = <<>>
    /\ heap = <<>>
    /\ context_log = NoReading
    /\ completions = 0

\* the components no call is made on
RestInit ==
    /\ TriggerInit(FALSE, 1, PerceptionEvent("text", "final", <<>>, 1))
    /\ OrchInit("none", FALSE)
    /\ ProcessInit(<<>>, <<>>)
    /\ ContextInit

Init ==
    /\ StreamInit
    /\ ManagerInit(1)
    /\ DriverInit
    /\ RestInit

\* asyncio.Queue.full(): never, for a queue built without maxsize
QueueFull(q) == QueueMaxsize > 0 /\ Len(q) >= QueueMaxsize

\* output_queue.put_nowait(frame)
Put(frame) ==
    /\ output_queue' = Append(output_queue, frame)
    /\ enq' = Append(enq, frame)

NoPut == UNCHANGED << output_queue, enq >>

\* a departure from the expected run is taken
Fault == nFaults < MaxFaults /\ nFaults' = nFaults + 1
NoFault == UNCHANGED nFaults

\* The model follows a stream until its generator has finished: what the SDK
\* thread or a task left behind does after that reaches nobody.
Running == mpc # "closed"

WorkerDone(w) == workers[w].pc = "done"
WorkerLive(w) == workers[w].pc \in {"wait", "turn"}
InTurn == { w \in Slots : workers[w].pc = "turn" }

\* variant: a turn that suspends at every chunk, so that other tasks run meanwhile
LoopAlwaysIdle == TRUE

\* The event loop runs one task at a time, and a turn has no suspension point
\* (servicer.py:456-504, qwen.py:157-264): no other task resumes during a turn.
LoopIdle == InTurn = {}

\* task.cancel(): no effect on a task that is done
CancelTask(ws, w) ==
    IF w # 0 /\ ws[w].pc = "wait" THEN [ws EXCEPT ![w].cancel = TRUE] ELSE ws

Snap == [done |-> TRUE, enqLen |-> Len(enq), delLen |-> Len(delivered),
         pending |-> { pending_sentences[i].sid : i \in 1..Len(pending_sentences) }]


\* ------------------------------------------------------------------ STT callbacks
\* The SDK thread calls back while a recognition it opened is running.
SttOpen == \E i \in Slots : stt[i] = "running"

\* on_partial, servicer.py:410-418
OnPartial(text) ==
    /\ Running
    /\ SttOpen /\ nStt < MaxSttEvents
    /\ nStt' = nStt + 1
    /\ Put(SttFrame(text, FALSE))
    /\ UNCHANGED << stream_ended, pending_sentences, conversation_history, answer_index,
                    config, stt, stt_service, workers, llm_worker_task, rpc,
                    readerCancelled, mpc, delivered, nChunks, pushed, directErr,
                    disconnected, waitTimedOut, endSnap, cancelSnap, offStream >>
    /\ NoFault

\* variant: every final is queued for the LLM
PushFinalAlways(text) ==
    /\ pending_sentences' =
         Append(pending_sentences, [sid |-> Len(pushed) + 1, text |-> Strip(text)])
    /\ pushed' = Append(pushed, Strip(text))

\* the sentence on_final queues for the LLM, servicer.py:430-432
PushFinal(text) ==
    IF Strip(text) # <<>>
    THEN /\ pending_sentences' =
              Append(pending_sentences, [sid |-> Len(pushed) + 1, text |-> Strip(text)])
         /\ pushed' = Append(pushed, Strip(text))
    ELSE UNCHANGED << pending_sentences, pushed >>

\* on_final, servicer.py:420-432
OnFinal(text) ==
    /\ Running
    /\ SttOpen /\ nStt < MaxSttEvents
    /\ nStt' = nStt + 1
    /\ Put(SttFrame(text, TRUE))
    /\ PushFinal(text)
    /\ UNCHANGED << stream_ended, conversation_history, answer_index,
                    config, stt, stt_service, workers, llm_worker_task, rpc,
                    readerCancelled, mpc, delivered, nChunks, directErr,
                    disconnected, waitTimedOut, endSnap, cancelSnap, offStream >>
    /\ NoFault

\* on_error, servicer.py:434-442 (called from SttCallback.on_error, aliyun.py:157-163)
OnError ==
    /\ Running
    /\ SttOpen /\ nStt < MaxSttEvents
    /\ nStt' = nStt + 1
    /\ Put(ErrorFrame(5000, FALSE))
    /\ UNCHANGED << stream_ended, pending_sentences, conversation_history, answer_index,
                    config, stt, stt_service, workers, llm_worker_task, rpc,
                    readerCancelled, mpc, delivered, nChunks, pushed, directErr,
                    disconnected, waitTimedOut, endSnap, cancelSnap, offStream >>
    /\ Fault

\* ------------------------------------------------------------------ LLM worker
\* _convert_messages, servicer.py:15-23
ConvertRole(role) == IF role \in {"system", "user", "assistant"} THEN role ELSE "user"
ConvertMessages(ms) == [i \in 1..Len(ms) |-> Msg(ConvertRole(ms[i].role), ms[i].content)]

\* servicer.py:459-463
BuildMessages(sentence) ==
    (IF config # <<>> THEN << Msg("system", config) >> ELSE <<>>)
        \o conversation_history \o << Msg("user", sentence) >>

\* variant: a get() that returns the head and leaves it in the queue
AfterGetKeep(q) == q

\* what the worker leaves behind in pending_sentences, servicer.py:452
AfterGet(q) == Tail(q)

\* the loop test, servicer.py:448
WorkerLoops == ~stream_ended \/ pending_sentences # <<>>

wUnchanged == << offStream, stream_ended, config, stt, stt_service, llm_worker_task, rpc,
                 readerCancelled, mpc, delivered, nStt, pushed, directErr,
                 disconnected, waitTimedOut, endSnap, cancelSnap >>

\* variant: a get() that returns the sentence queued last
DequeuedNewest(q) == q[Len(q)]

\* the sentence pending_sentences.get() returns, servicer.py:452
Dequeued(q) == Head(q)

\* pending_sentences.get() returns: the turn starts, servicer.py:452-475
WorkerDequeue(w) ==
    /\ Running /\ LoopIdle
    /\ workers[w].pc = "wait" /\ ~workers[w].cancel
    /\ pending_sentences # <<>>
    /\ LET s == Dequeued(pending_sentences) IN
       workers' = [workers EXCEPT ![w] =
            [pc |-> "turn", cancel |-> FALSE, sid |-> s.sid, sentence |-> s.text,
             messages |-> ConvertMessages(BuildMessages(s.text)),
             full_response |-> <<>>, token_index |-> 0,
             answer_idx |-> answer_index, seen |-> <<>>]]
    /\ pending_sentences' = AfterGet(pending_sentences)
    /\ NoPut
    /\ UNCHANGED << conversation_history, answer_index >>
    /\ UNCHANGED nChunks
    /\ UNCHANGED wUnchanged
    /\ NoFault

\* the 0.1 s wait expires on an empty queue and the loop test fails, servicer.py:448-454
WorkerExit(w) ==
    /\ Running /\ LoopIdle
    /\ workers[w].pc = "wait" /\ ~workers[w].cancel
    /\ pending_sentences = <<>>
    /\ ~WorkerLoops
    /\ workers' = [workers EXCEPT ![w].pc = "done"]
    /\ NoPut
    /\ UNCHANGED << pending_sentences, conversation_history, answer_index >>
    /\ UNCHANGED nChunks
    /\ UNCHANGED wUnchanged
    /\ NoFault

\* variant: an index that skips a value
NextIndexSkips(n) == n + 2

\* token_index += 1, servicer.py:486
NextIndex(n) == n + 1

\* one chunk of chat_stream, servicer.py:477-486
WorkerChunk(w, delta) ==
    /\ Running
    /\ workers[w].pc = "turn"
    /\ nChunks < MaxChunks
    /\ nChunks' = nChunks + 1
    /\ IF delta # <<>>
       THEN /\ workers' = [workers EXCEPT
                    ![w].full_response = @ \o delta,
                    ![w].token_index = NextIndex(@),
                    ![w].seen = Append(@, delta)]
            /\ Put(LlmFrame(delta, workers[w].token_index, workers[w].sid))
       ELSE /\ workers' = [workers EXCEPT ![w].seen = Append(@, delta)]
            /\ NoPut
    /\ UNCHANGED << pending_sentences, conversation_history, answer_index >>
    /\ UNCHANGED wUnchanged
    /\ NoFault

\* variant: a finished turn that commits only the user's sentence
CommitUserOnly(h, sentence, response) == h \o << Msg("user", sentence) >>

\* what a finished turn commits, servicer.py:489-490
CommitHistory(h, sentence, response) ==
    h \o << Msg("user", sentence), Msg("assistant", response) >>

\* the worker after a finished turn: back at the loop test, servicer.py:503, 448
AfterTurn(wk) == [IdleWorker EXCEPT !.pc = "wait"]

\* variant: an answer_index that stays
NextAnswerIndexStays(n) == n

\* answer_index += 1, servicer.py:503
NextAnswerIndex(n) == n + 1

\* chat_stream is exhausted: the turn completes, servicer.py:488-504
WorkerFinish(w) ==
    /\ Running
    /\ workers[w].pc = "turn"
    /\ conversation_history' =
          CommitHistory(conversation_history, workers[w].sentence, workers[w].full_response)
    /\ Put(SentenceCompleteFrame(workers[w].sentence, workers[w].sid))
    /\ answer_index' = NextAnswerIndex(answer_index)
    /\ workers' = [workers EXCEPT ![w] = AfterTurn(@)]
    /\ UNCHANGED pending_sentences
    /\ UNCHANGED nChunks
    /\ UNCHANGED wUnchanged
    /\ NoFault

\* variant: an except clause that leaves the while loop
AfterFailStops(wk) == [IdleWorker EXCEPT !.pc = "done"]

\* the worker after the except clause: back at the loop test, servicer.py:508-516, 448
AfterFail(wk) == [IdleWorker EXCEPT !.pc = "wait"]

\* variant: a failed turn that leaves its sentence in the history
HistoryAfterFailKeepsUser(h, sentence, response) == h \o << Msg("user", sentence) >>

\* conversation_history after a turn that raised: the appends of
\* servicer.py:489-490 were not reached and the except clause, 508-516,
\* writes nothing
HistoryAfterFail(h, sentence, response) == h

\* chat_stream raises: servicer.py:508-516, then the loop goes on
WorkerFail(w) ==
    /\ Running
    /\ workers[w].pc = "turn"
    /\ Put(LlmErrorFrame(workers[w].sid))
    /\ workers' = [workers EXCEPT ![w] = AfterFail(@)]
    /\ conversation_history' =
          HistoryAfterFail(conversation_history, workers[w].sentence, workers[w].full_response)
    /\ UNCHANGED << pending_sentences, answer_index >>
    /\ UNCHANGED nChunks
    /\ UNCHANGED wUnchanged
    /\ Fault

\* CancelledError arrives at the worker's await (servicer.py:452): break,
\* servicer.py:506-507
WorkerCancelled(w) ==
    /\ Running /\ LoopIdle
    /\ workers[w].pc = "wait" /\ workers[w].cancel
    /\ workers' = [workers EXCEPT ![w] = [IdleWorker EXCEPT !.pc = "done"]]
    /\ NoPut
    /\ UNCHANGED << pending_sentences, conversation_history, answer_index >>
    /\ UNCHANGED nChunks
    /\ UNCHANGED wUnchanged
    /\ NoFault


\* ------------------------------------------------------------------ request reader
Created == Cardinality({ i \in Slots : stt[i] # "none" })

CanRead == LoopIdle /\ rpc = "read" /\ ~readerCancelled

rUnchanged == << offStream, pending_sentences, conversation_history, answer_index, mpc, delivered,
                 nStt, nChunks, pushed, directErr, disconnected >>

\* Start frame, start_session succeeds: servicer.py:526-557
ReadStart(sp) ==
    /\ CanRead /\ Created < MaxStarts
    /\ LET i == Created + 1 IN
         /\ stt' = [stt EXCEPT ![i] = "running"]
         /\ stt_service' = i
         /\ workers' = [workers EXCEPT ![i] = [IdleWorker EXCEPT !.pc = "wait"]]
         /\ llm_worker_task' = i
    /\ config' = sp
    /\ Put(ReadyFrame)
    /\ UNCHANGED << stream_ended, rpc, readerCancelled, waitTimedOut, endSnap, cancelSnap >>
    /\ UNCHANGED rUnchanged
    /\ IF Created = 0 THEN NoFault ELSE Fault

\* Start frame, start_session raises after reporting through on_error:
\* servicer.py:526-546, aliyun.py:91-104
ReadStartFail(sp) ==
    /\ CanRead /\ Created < MaxStarts
    /\ LET i == Created + 1 IN
         /\ stt' = [stt EXCEPT ![i] = "failed"]
         /\ stt_service' = i
    /\ config' = sp
    /\ Put(ErrorFrame(5000, FALSE))
    /\ rpc' = "failed"
    /\ UNCHANGED << stream_ended, workers, llm_worker_task, readerCancelled,
                    waitTimedOut, endSnap, cancelSnap >>
    /\ UNCHANGED rUnchanged
    /\ Fault

\* Audio frame: forwarded, or dropped when no session runs; nothing the stream
\* keeps changes, servicer.py:560-562, aliyun.py:176-195
ReadAudio ==
    /\ CanRead
    /\ UNCHANGED vars

\* Audio frame, the upstream send fails: on_error, then raise, aliyun.py:191-198
ReadAudioFail ==
    /\ CanRead
    /\ stt_service # 0 /\ stt[stt_service] = "running"
    /\ Put(ErrorFrame(5000, FALSE))
    /\ rpc' = "failed"
    /\ UNCHANGED << stream_ended, config, stt, stt_service, workers, llm_worker_task,
                    readerCancelled, waitTimedOut, endSnap, cancelSnap >>
    /\ UNCHANGED rUnchanged
    /\ Fault

\* Control FLUSH: AliyunSttService.flush does nothing, servicer.py:568-570, aliyun.py:298-301
ReadFlush ==
    /\ CanRead
    /\ UNCHANGED vars

\* Control END_AUDIO up to its first await, servicer.py:572-577: with an STT
\* session, stop_session suspends on its keep-alive task (aliyun.py:306-309)
ReadEndAudio ==
    /\ CanRead
    /\ stream_ended' = TRUE
    /\ endSnap' = Snap
    /\ IF stt_service # 0
       THEN /\ rpc' = "stopping"
            /\ NoPut
       ELSE /\ rpc' = "done"
            /\ Put(StopFrame)
    /\ UNCHANGED << config, stt, stt_service, workers, llm_worker_task, readerCancelled,
                    waitTimedOut, cancelSnap >>
    /\ UNCHANGED rUnchanged
    /\ NoFault

\* stop_session returns (a cancellation delivered at its await is swallowed,
\* aliyun.py:308-311); then the wait for the worker begins, or is over at once:
\* servicer.py:577-597
ReaderStopped ==
    /\ LoopIdle
    /\ rpc = "stopping"
    /\ stt' = [stt EXCEPT ![stt_service] = "stopped"]
    /\ stt_service' = 0
    /\ readerCancelled' = FALSE
    /\ IF llm_worker_task # 0 /\ ~WorkerDone(llm_worker_task)
       THEN /\ rpc' = "waitWorker"
            /\ NoPut
       ELSE /\ rpc' = "done"
            /\ Put(StopFrame)
    /\ UNCHANGED << stream_ended, config, workers, llm_worker_task,
                    waitTimedOut, endSnap, cancelSnap >>
    /\ UNCHANGED rUnchanged
    /\ NoFault

\* the worker task is done: terminal Complete, return, servicer.py:583-597
ReaderWorkerDone ==
    /\ LoopIdle
    /\ rpc = "waitWorker" /\ ~readerCancelled
    /\ WorkerDone(llm_worker_task)
    /\ Put(StopFrame)
    /\ rpc' = "done"
    /\ UNCHANGED << stream_ended, config, stt, stt_service, workers, llm_worker_task,
                    readerCancelled, waitTimedOut, endSnap, cancelSnap >>
    /\ UNCHANGED rUnchanged
    /\ NoFault

\* the 60 s wait expires: the worker is cancelled, servicer.py:583-586
ReaderWaitTimeout ==
    /\ LoopIdle
    /\ rpc = "waitWorker" /\ ~readerCancelled
    /\ WorkerLive(llm_worker_task) /\ ~workers[llm_worker_task].cancel
    /\ workers' = CancelTask(workers, llm_worker_task)
    /\ waitTimedOut' = TRUE
    /\ NoPut
    /\ UNCHANGED << stream_ended, config, stt, stt_service, llm_worker_task, rpc,
                    readerCancelled, endSnap, cancelSnap >>
    /\ UNCHANGED rUnchanged
    /\ Fault

\* Control CANCEL, servicer.py:599-604
ReadCancel ==
    /\ CanRead
    /\ stream_ended' = TRUE
    /\ workers' = CancelTask(workers, llm_worker_task)
    /\ cancelSnap' = Snap
    /\ rpc' = "done"
    /\ NoPut
    /\ UNCHANGED << config, stt, stt_service, llm_worker_task, readerCancelled,
                    waitTimedOut, endSnap >>
    /\ UNCHANGED rUnchanged
    /\ NoFault

\* the client half-closes: the async for ends, servicer.py:524
ReadEof ==
    /\ CanRead
    /\ rpc' = "done"
    /\ NoPut
    /\ UNCHANGED << stream_ended, config, stt, stt_service, workers, llm_worker_task,
                    readerCancelled, waitTimedOut, endSnap, cancelSnap >>
    /\ UNCHANGED rUnchanged
    /\ NoFault

\* request_iterator raises, servicer.py:524
ReadError ==
    /\ CanRead
    /\ rpc' = "failed"
    /\ NoPut
    /\ UNCHANGED << stream_ended, config, stt, stt_service, workers, llm_worker_task,
                    readerCancelled, waitTimedOut, endSnap, cancelSnap >>
    /\ UNCHANGED rUnchanged
    /\ Fault

\* request_task.cancel() reaches the reader at its await, servicer.py:651-656
ReaderCancelled ==
    /\ LoopIdle
    /\ readerCancelled /\ rpc \in {"read", "waitWorker"}
    /\ rpc' = "cancelled"
    /\ readerCancelled' = FALSE
    /\ NoPut
    /\ UNCHANGED << stream_ended, config, stt, stt_service, workers, llm_worker_task,
                    waitTimedOut, endSnap, cancelSnap >>
    /\ UNCHANGED rUnchanged
    /\ NoFault


\* ------------------------------------------------------------------ output loop
\* variant: a loop that ends as soon as the stream has ended
LoopContNoDrain == ~stream_ended

\* the loop test, servicer.py:611
LoopCont == ~stream_ended \/ output_queue # <<>>

\* variant: a get() that takes the newest frame
TakenNewest(q) == q[Len(q)]

\* variant: a get() that leaves the frame it returned in the queue
LeftAll(q) == q

\* output_queue.get(): the frame taken and the queue left, servicer.py:614
Taken(q) == Head(q)
Left(q) == Tail(q)

ReaderOver == rpc \in {"done", "failed", "cancelled"}

\* where the finally block suspends next, servicer.py:651-661
PcAfterReader ==
    IF stt_service # 0 /\ stt[stt_service] = "running" THEN "finStt" ELSE "closed"

PcAfterWorker == IF ReaderOver THEN PcAfterReader ELSE "finReader"

\* the finally block up to its first await, servicer.py:642-661
EnterFinally ==
    /\ stream_ended' = TRUE
    /\ workers' = CancelTask(workers, llm_worker_task)
    /\ LET next == IF llm_worker_task # 0 /\ WorkerLive(llm_worker_task)
                   THEN "finWorker" ELSE PcAfterWorker IN
         /\ mpc' = next
         /\ readerCancelled' = (next = "finReader")

mUnchanged == << offStream, pending_sentences, conversation_history, answer_index, config,
                 stt_service, llm_worker_task, rpc, nStt, nChunks, pushed,
                 waitTimedOut, endSnap, cancelSnap >>

\* get() returns a frame and the generator yields it, servicer.py:611-615
MainDeliver ==
    /\ LoopIdle
    /\ mpc = "loop" /\ LoopCont
    /\ output_queue # <<>>
    /\ delivered' = Append(delivered, Taken(output_queue))
    /\ output_queue' = Left(output_queue)
    /\ UNCHANGED << stream_ended, stt, workers, readerCancelled, mpc, enq, directErr,
                    disconnected >>
    /\ UNCHANGED mUnchanged
    /\ NoFault

\* the loop ends: its test fails, or the 50 ms wait expires on an empty queue
\* with the reader returned, servicer.py:611, 616-629
MainExit ==
    /\ LoopIdle
    /\ mpc = "loop"
    /\ \/ ~LoopCont
       \/ output_queue = <<>> /\ rpc = "done"
    /\ EnterFinally
    /\ UNCHANGED << stt, delivered, output_queue, enq, directErr, disconnected >>
    /\ UNCHANGED mUnchanged
    /\ NoFault

\* the 50 ms wait expires on an empty queue with the reader failed: its
\* exception is raised, caught, and an Error frame yielded, servicer.py:616-621, 632-640
MainRaise ==
    /\ LoopIdle
    /\ mpc = "loop" /\ LoopCont
    /\ output_queue = <<>> /\ rpc = "failed"
    /\ delivered' = Append(delivered, ErrorFrame(5000, FALSE))
    /\ directErr' = TRUE
    /\ mpc' = "raised"
    /\ UNCHANGED << stream_ended, stt, workers, readerCancelled, output_queue, enq,
                    disconnected >>
    /\ UNCHANGED mUnchanged
    /\ NoFault

\* the generator resumes after yielding the Error frame, servicer.py:640-646
MainAfterRaise ==
    /\ LoopIdle
    /\ mpc = "raised"
    /\ EnterFinally
    /\ UNCHANGED << stt, delivered, output_queue, enq, directErr, disconnected >>
    /\ UNCHANGED mUnchanged
    /\ NoFault

\* the client goes away: the generator is cancelled at its await, servicer.py:642
Disconnect ==
    /\ LoopIdle
    /\ mpc = "loop"
    /\ disconnected' = TRUE
    /\ EnterFinally
    /\ UNCHANGED << stt, delivered, output_queue, enq, directErr >>
    /\ UNCHANGED mUnchanged
    /\ Fault

\* await llm_worker_task returns; the reader, which waited for the worker
\* first, has resumed before: servicer.py:648-652
FinWorkerDone ==
    /\ LoopIdle
    /\ mpc = "finWorker"
    /\ WorkerDone(llm_worker_task) /\ rpc # "waitWorker"
    /\ mpc' = PcAfterWorker
    /\ readerCancelled' = (PcAfterWorker = "finReader")
    /\ UNCHANGED << stream_ended, stt, workers, delivered, output_queue, enq, directErr,
                    disconnected >>
    /\ UNCHANGED mUnchanged
    /\ NoFault

\* await request_task returns, servicer.py:654-659
FinReaderDone ==
    /\ LoopIdle
    /\ mpc = "finReader"
    /\ ReaderOver
    /\ mpc' = PcAfterReader
    /\ UNCHANGED << stream_ended, stt, workers, readerCancelled, delivered, output_queue,
                    enq, directErr, disconnected >>
    /\ UNCHANGED mUnchanged
    /\ NoFault

\* stt_service.stop_session() returns, servicer.py:657-662
FinSttStopped ==
    /\ LoopIdle
    /\ mpc = "finStt"
    /\ stt' = [stt EXCEPT ![stt_service] = "stopped"]
    /\ mpc' = "closed"
    /\ UNCHANGED << stream_ended, workers, readerCancelled, delivered, output_queue, enq,
                    directErr, disconnected >>
    /\ UNCHANGED mUnchanged
    /\ NoFault

\* ------------------------------------------------------------------ specification
Next ==
    \/ \E t \in PartialTexts : OnPartial(t)
    \/ \E t \in FinalTexts : OnFinal(t)
    \/ OnError
    \/ \E w \in Slots : WorkerDequeue(w)
    \/ \E w \in Slots : WorkerExit(w)
    \/ \E w \in Slots, d \in Deltas : WorkerChunk(w, d)
    \/ \E w \in Slots : WorkerFinish(w)
    \/ \E w \in Slots : WorkerFail(w)
    \/ \E w \in Slots : WorkerCancelled(w)
    \/ \E sp \in SysPrompts : ReadStart(sp)
    \/ \E sp \in SysPrompts : ReadStartFail(sp)
    \/ ReadAudio
    \/ ReadAudioFail
    \/ ReadFlush
    \/ ReadEndAudio
    \/ ReaderStopped
    \/ ReaderWorkerDone
    \/ ReaderWaitTimeout
    \/ ReadCancel
    \/ ReadEof
    \/ ReadError
    \/ ReaderCancelled
    \/ MainDeliver
    \/ MainExit
    \/ MainRaise
    \/ MainAfterRaise
    \/ Disconnect
    \/ FinWorkerDone
    \/ FinReaderDone
    \/ FinSttStopped

Spec == Init /\ [][Next]_vars

\* ------------------------------------------------------------------ properties
Closed == mpc = "closed"
Last(s) == s[Len(s)]
IsLlm(f) == f.kind = "llm"
IsSentenceComplete(f) == f.kind = "complete" /\ f.reason = "sentence_complete"

\* the delivered frames that came out of output_queue: all of them, but for
\* the Error frame the generator yields itself
FromQueue == IF directErr THEN SubSeq(delivered, 1, Len(delivered) - 1) ELSE delivered

\* the places in enq of the sentence_complete frames of turn u
CompletesOf(u) == { i \in 1..Len(enq) : IsSentenceComplete(enq[i]) /\ enq[i].turn = u }

\* a close after END_AUDIO in which nothing failed and the client stayed
NormalClose == Closed /\ endSnap.done /\ nFaults = 0 /\ ~disconnected

\* C1: on a normal close (the client sent END_AUDIO and no error occurred) the
\* client has received Complete{stop}, and it is the last frame delivered.
C1_StopIsLastOnNormalClose ==
    NormalClose => (delivered # <<>> /\ Last(delivered) = StopFrame)

\* C2: every sentence that was in pending_sentences when END_AUDIO was handled
\* has been answered at a normal close: its sentence_complete frame (and with
\* it, in queue order, its Llm frames) was delivered before Complete{stop}.
C2_PendingAnsweredBeforeStop ==
    NormalClose =>
        \A u \in endSnap.pending :
            \E i, j \in 1..Len(delivered) :
                /\ i < j
                /\ delivered[i] = SentenceCompleteFrame(pushed[u], u)
                /\ delivered[j] = StopFrame

C4_ExactlyOneSentenceComplete ==
    Closed => \A u \in 1..Len(pushed) : Cardinality(CompletesOf(u)) = 1

\* C4: a pushed sentence has at most one sentence_complete frame; the frame
\* carries the sentence and follows every Llm frame of its turn; and there are
\* as many sentence_complete frames as turns that ran to their end.
C4_AtMostOneSentenceComplete ==
    /\ \A u \in 1..Len(pushed) :
          /\ Cardinality(CompletesOf(u)) <= 1
          /\ \A i \in CompletesOf(u) :
                /\ enq[i].text = pushed[u]
                /\ \A j \in 1..Len(enq) : (IsLlm(enq[j]) /\ enq[j].turn = u) => j < i
    /\ Cardinality({ i \in 1..Len(enq) : IsSentenceComplete(enq[i]) }) = answer_index

\* C4's case: a turn that streamed an Llm frame and ended with its sentence_complete
C4_Witness ==
    \E i, j \in 1..Len(enq) :
        /\ i < j /\ IsLlm(enq[i])
        /\ enq[j] = SentenceCompleteFrame(pushed[enq[i].turn], enq[i].turn)

\* C5: the sentence_complete frame of a turn is enqueued after every Llm frame
\* of that turn and before any Llm frame of a later turn, and no Llm frame of
\* another turn lies between an Llm frame of a turn and a later frame (Llm or
\* sentence_complete) of the same turn -- with any number of Start frames.
C5_TurnsNotInterleaved ==
    \A i, j \in 1..Len(enq) :
        /\ (IsSentenceComplete(enq[i]) /\ IsLlm(enq[j]) /\ enq[j].turn = enq[i].turn) => j < i
        /\ (IsSentenceComplete(enq[i]) /\ IsLlm(enq[j]) /\ enq[j].turn > enq[i].turn) => i < j
        /\ (i < j /\ IsLlm(enq[i]) /\ (IsLlm(enq[j]) \/ IsSentenceComplete(enq[j]))
              /\ enq[i].turn = enq[j].turn) =>
                 \A k \in (i + 1)..(j - 1) : IsLlm(enq[k]) => enq[k].turn = enq[i].turn

\* C5's case: two workers exist, and two turns have each streamed an Llm frame
C5_Witness ==
    /\ \A w \in Slots : workers[w].pc # "none"
    /\ \E i, j \in 1..Len(enq) : IsLlm(enq[i]) /\ IsLlm(enq[j]) /\ enq[i].turn # enq[j].turn

\* the assistant's answer of turn u as the client sees it: its deltas, in order
RECURSIVE ResponseOf(_, _)
ResponseOf(fs, u) ==
    IF fs = <<>> THEN <<>>
    ELSE (IF IsLlm(Head(fs)) /\ Head(fs).turn = u THEN Head(fs).text ELSE <<>>)
            \o ResponseOf(Tail(fs), u)

\* the (user, assistant) pairs of the turns that emitted sentence_complete
\* among the frames fs, in the order of their sentence_complete frames
RECURSIVE PairsOf(_, _)
PairsOf(fs, all) ==
    IF fs = <<>> THEN <<>>
    ELSE (IF IsSentenceComplete(Head(fs))
          THEN << Msg("user", Head(fs).text),
                  Msg("assistant", ResponseOf(all, Head(fs).turn)) >>
          ELSE <<>>)
            \o PairsOf(Tail(fs), all)

\* C6: conversation_history is, in order, the user sentence and the full
\* assistant response of exactly the turns that emitted sentence_complete (a
\* turn that did not reach its end contributes nothing), and the message list
\* a turn hands to the LLM is the system prompt if any, then those pairs, then
\* the turn's own sentence.
C6_HistoryIsCompletedTurns ==
    /\ conversation_history = PairsOf(enq, enq)
    /\ \A w \in InTurn :
          workers[w].messages =
              (IF config # <<>> THEN << Msg("system", config) >> ELSE <<>>)
                  \o PairsOf(enq, enq) \o << Msg("user", workers[w].sentence) >>

\* C6's case: a second turn is under way after a first one that completed
\* with a non-empty response
C6_Witness ==
    \E w \in InTurn :
        /\ Len(workers[w].messages) = 4
        /\ workers[w].messages[3] = Msg("assistant", <<"x">>)

\* C7: once the reader has handled Control{CANCEL} while a sentence awaited
\* its answer (the reader runs between turns only, so a turn is never further
\* in flight than that), no sentence_complete frame for that sentence and no
\* Complete{stop} frame is enqueued, hence none delivered.
C7_NoCompleteAfterCancel ==
    cancelSnap.done =>
        /\ \A u \in cancelSnap.pending : CompletesOf(u) = {}
        /\ \A i \in 1..Len(enq) : enq[i] # StopFrame

\* C8: when a stream that handled CANCEL has closed on a client that stayed,
\* every Llm frame enqueued before the CANCEL was handled has been delivered.
C8_LlmBeforeCancelDelivered ==
    (Closed /\ cancelSnap.done /\ ~disconnected) =>
        \A i \in 1..cancelSnap.enqLen :
            IsLlm(enq[i]) => (i <= Len(FromQueue) /\ FromQueue[i] = enq[i])

\* C8's case: an Llm frame was still in output_queue when CANCEL was handled
C8_Witness ==
    /\ Closed /\ cancelSnap.done /\ ~disconnected
    /\ \E i \in (cancelSnap.delLen + 1)..cancelSnap.enqLen : IsLlm(enq[i])

\* C9 as stated: the frames sitting in output_queue when CANCEL is handled are
\* not delivered.
C9_QueuedFramesNotDelivered ==
    cancelSnap.done => Len(FromQueue) <= cancelSnap.delLen

\* C9: CANCEL enqueues no Complete{stop}, and the output loop still flushes:
\* when the stream has closed on a client that stayed, every frame that was
\* enqueued before the CANCEL was handled has been delivered, in order.
C9_QueuedFramesStillDelivered ==
    cancelSnap.done =>
        /\ \A i \in 1..Len(enq) : enq[i] # StopFrame
        /\ (Closed /\ ~disconnected) =>
              /\ Len(delivered) >= cancelSnap.enqLen
              /\ SubSeq(delivered, 1, cancelSnap.enqLen) = SubSeq(enq, 1, cancelSnap.enqLen)

\* C9's case: two frames were still in output_queue when CANCEL was handled
C9_Witness ==
    /\ Closed /\ cancelSnap.done /\ ~disconnected
    /\ cancelSnap.enqLen >= cancelSnap.delLen + 2

\* C10: when the stream has closed, by whatever path and after whatever
\* frames, no STT session started on it is still running and no LLM worker
\* task started on it is still alive.
C10_NothingLeftOpen ==
    Closed =>
        /\ \A i \in Slots : stt[i] # "running"
        /\ \A w \in Slots : ~WorkerLive(w)

\* the places in enq of the Error frames of turn u
ErrorsOf(u) == { i \in 1..Len(enq) : enq[i].kind = "error" /\ enq[i].turn = u }

\* the Llm frames of turn u in a sequence of frames
LlmsOf(q, u) == SelectSeq(q, LAMBDA f : IsLlm(f) /\ f.turn = u)

\* sentence u was taken by a worker
TurnStarted(u) == u \in 1..Len(pushed) /\ \A i \in 1..Len(pending_sentences) : pending_sentences[i].sid # u

\* the turn of sentence u ended by chat_stream raising: it was started, no
\* worker is in it and it did not complete
TurnFailed(u) ==
    /\ TurnStarted(u)
    /\ \A w \in Slots : ~(workers[w].pc = "turn" /\ workers[w].sid = u)
    /\ CompletesOf(u) = {}

\* C16: a turn in which chat_stream raised has exactly one Error frame, with
\* code 5001 and recoverable, enqueued after the turn's Llm frames, which stay
\* in the queue or with the client; no other turn has an Error frame; and the
\* step that enqueues it puts that one frame only and leaves the worker
\* waiting for the next sentence, which it takes from an untouched
\* pending_sentences.
C16_FailedTurnState ==
    \A u \in 1..Len(pushed) :
        /\ Cardinality(ErrorsOf(u)) = (IF TurnFailed(u) THEN 1 ELSE 0)
        /\ \A i \in ErrorsOf(u) :
              /\ enq[i] = LlmErrorFrame(u)
              /\ enq[i].num = 5001 /\ enq[i].flag = TRUE
              /\ \A j \in 1..Len(enq) : (enq[j].turn = u /\ j # i) => (IsLlm(enq[j]) /\ j < i)
        /\ LlmsOf(FromQueue \o output_queue, u) = LlmsOf(enq, u)

C16_FailedTurnStep ==
    \A w \in Slots :
        (workers[w].pc = "turn" /\ Len(enq') > Len(enq) /\ Last(enq').kind = "error"
            /\ Last(enq').turn = workers[w].sid)
        => /\ enq' = Append(enq, LlmErrorFrame(workers[w].sid))
           /\ workers'[w].pc = "wait" /\ ~workers'[w].cancel
           /\ pending_sentences' = pending_sentences
           /\ conversation_history' = conversation_history

C16_LlmErrorIsRecoverable == [](C16_FailedTurnState) /\ [][C16_FailedTurnStep]_vars

\* the first turn failed after an Llm frame, and the same worker then
\* completed the turn of the second sentence
C16_Witness ==
    /\ Created = 1
    /\ ErrorsOf(1) # {} /\ LlmsOf(enq, 1) # <<>>
    /\ CompletesOf(2) # {}

\* the places in a sequence of frames of the Error frames that are not recoverable
FatalErrorsIn(q) == { i \in 1..Len(q) : q[i].kind = "error" /\ ~q[i].flag }

\* the STT driver reported a failure: on_error is the only code that puts an
\* Error frame with code 5000 on output_queue
SttFailed == \E i \in 1..Len(enq) : enq[i] = ErrorFrame(5000, FALSE)

\* C17: when the STT driver has reported a failure, at session start or
\* later, the client receives no more than one Error frame that is not
\* recoverable, and no Stt or Llm frame after it.
C17_SttFailureStopsStream ==
    SttFailed =>
        /\ Cardinality(FatalErrorsIn(delivered)) <= 1
        /\ \A i \in FatalErrorsIn(delivered) :
              \A j \in (i + 1)..Len(delivered) : delivered[j].kind \notin { "stt", "llm" }

\* after an STT failure the client receives no Llm frame behind the Error frame
C17_NoLlmAfterSttFailure ==
    SttFailed =>
        \A i \in FatalErrorsIn(delivered) :
            \A j \in (i + 1)..Len(delivered) : delivered[j].kind # "llm"

\* an STT failure gives the client no more than one Error frame
C17_OneErrorPerSttFailure == SttFailed => Cardinality(FatalErrorsIn(delivered)) <= 1

\* C18: output_queue never holds more frames than its configured capacity
\* (a producer that finds it full waits for the sender to pop a frame).
C18_OutputQueueWithinCapacity == Len(output_queue) <= QueueMaxsize

\* the producers have put every frame of two turns on output_queue and the
\* sender has not popped one
C18_PiledUp ==
    /\ delivered = <<>>
    /\ output_queue = enq
    /\ ~QueueFull(output_queue)
    /\ CompletesOf(1) # {} /\ CompletesOf(2) # {}

\* the deltas of a turn that are not empty, in upstream order
NonEmpty(ds) == SelectSeq(ds, LAMBDA d : d # <<>>)

\* C19: the Llm frames of one turn carry the indices 0, 1, 2, ... in enqueue
\* order, in every turn (the count restarts at 0); and the Llm frames of the
\* turn under way are, in order, the non-empty deltas the LLM has yielded so
\* far, so that an empty delta gives no frame and uses no index.
C19_LlmIndicesCountUp ==
    /\ \A u \in 1..Len(pushed) :
          LET L == LlmsOf(enq, u)
          IN \A i \in 1..Len(L) : L[i].num = i - 1
    /\ \A w \in Slots :
          workers[w].pc = "turn" =>
              LET L == LlmsOf(enq, workers[w].sid)
                  ne == NonEmpty(workers[w].seen)
              IN /\ Len(L) = Len(ne)
                 /\ \A i \in 1..Len(L) : L[i].text = ne[i]
                 /\ workers[w].token_index = Len(ne)

\* the first turn completed with an Llm frame, and the second turn, under
\* way, has its first Llm frame
C19_Witness ==
    /\ LlmsOf(enq, 1) # <<>> /\ CompletesOf(1) # {}
    /\ \E w \in Slots : workers[w].pc = "turn" /\ workers[w].sid = 2
    /\ LlmsOf(enq, 2) # <<>> /\ LlmsOf(enq, 2)[1].num = 0

\* a turn whose first delta was empty and whose second was not has one Llm
\* frame, with index 0
C19_EmptyDeltaSkipped ==
    \E w \in Slots :
        /\ workers[w].pc = "turn"
        /\ workers[w].seen = << <<>>, <<"x">> >>
        /\ LlmsOf(enq, workers[w].sid) = << LlmFrame(<<"x">>, 0, workers[w].sid) >>

\* ================================================================ sessions
\* SessionManager and Session, src/src/orchestrator/session.py.  The manager's
\* methods run on caller threads and on the cleanup loop; every method body
\* is inside "with self._lock".  create is two steps, so that what the lock
\* excludes between its capacity test and its insert is a fact of the model;
\* the other methods hold the lock for one step.  Session's own methods
\* (create_task, touch, is_active) run on the object without the lock.
MaxSessionsChoices == { 1, 2 }      \* max_sessions given to the constructor

\* Session.is_expired, session.py:185-189
IsExpired(s) == now > s.expires_at

\* Session.is_active, session.py:191-193
IsActive(s) == s.status = "ACTIVE" /\ ~IsExpired(s)

\* a touch that also pushed the expiry forward (variant)
TouchSliding(s) == [s EXCEPT !.updated_at = now, !.expires_at = now + s.timeout_seconds]

\* Session.touch, session.py:195-197
Touch(s) == [s EXCEPT !.updated_at = now]

\* Session.__post_init__, session.py:153-155, on the object create() builds
\* (session.py:265-272: status ACTIVE, no expires_at given)
NewSession(timeout_seconds) ==
    [status |-> "ACTIVE", created_at |-> now, updated_at |-> now,
     expires_at |-> now + timeout_seconds,
     timeout_seconds |-> timeout_seconds, tasks_count |-> 0]

\* the sessions _cleanup_expired keeps only while they are open (variant)
RemovableExpiredOnly(s) == IsExpired(s)

\* the test of _cleanup_expired, session.py:359
Removable(s) == IsExpired(s) \/ s.status = "CLOSED"

\* SessionManager._cleanup_expired, session.py:354-368: the table afterwards
CleanedUp == { i \in sessions : ~Removable(session[i]) }

\* a lock that excludes nobody (variant)
LockNeverHeld == TRUE

\* self._lock can be acquired by a thread that does not hold it
LockFree == lock = 0

\* the session id of the next Session built
NextId == Cardinality({ i \in SessionIds : session[i].status # "none" }) + 1

\* create, session.py:258-262: the lock is taken, the capacity is tested,
\* the table is cleaned when full, and RuntimeError leaves the with block
CreateCheck(t) ==
    /\ thread[t].pc = "idle"
    /\ LockFree
    /\ LET full == Cardinality(sessions) >= max_sessions
           left == IF full THEN CleanedUp ELSE sessions
           raise == full /\ Cardinality(left) >= max_sessions
       IN /\ raise \/ NextId \in SessionIds
          /\ sessions' = left
          /\ lock' = IF raise THEN lock ELSE t
          /\ thread' = IF raise THEN thread
                       ELSE [thread EXCEPT ![t] = [pc |-> "create", id |-> 0, found |-> FALSE]]
          /\ lastCreate' = [done |-> raise, raised |-> raise, before |-> sessions,
                            removable |-> { i \in sessions : \/ now >= session[i].expires_at
                                                             \/ session[i].status = "CLOSED" },
                            after |-> left]
          /\ swept' = swept \cup (sessions \ left)
    /\ UNCHANGED << offSession, session, max_sessions, now, lastGetActive >>

\* create, session.py:264-284: the Session is built with the caller's config
\* and stored, the lock released
CreateInsert(t, timeout_seconds) ==
    /\ thread[t].pc = "create"
    /\ NextId \in SessionIds
    /\ session' = [session EXCEPT ![NextId] = NewSession(timeout_seconds)]
    /\ sessions' = sessions \cup { NextId }
    /\ lock' = IF lock = t THEN 0 ELSE lock
    /\ thread' = [thread EXCEPT ![t] = IdleThread]
    /\ lastCreate' = [lastCreate EXCEPT !.done = TRUE, !.after = sessions \cup { NextId }]
    /\ UNCHANGED << offSession, max_sessions, now, lastGetActive, swept >>

\* SessionManager.get, session.py:286-292: the session after the call
Got(id) ==
    IF id \in sessions /\ IsExpired(session[id])
    THEN [session EXCEPT ![id].status = "EXPIRED"]
    ELSE session

\* a direct call of get, session.py:286-292
Get(id) ==
    /\ LockFree
    /\ session' = Got(id)
    /\ UNCHANGED << offSession, sessions, max_sessions, lock, thread, now,
                    lastCreate, lastGetActive, swept >>

\* get_active, session.py:296: the call of get
GetActiveGet(t, id) ==
    /\ thread[t].pc = "idle"
    /\ LockFree
    /\ session' = Got(id)
    /\ thread' = [thread EXCEPT ![t] = [pc |-> "get_active", id |-> id,
                                        found |-> id \in sessions]]
    /\ UNCHANGED << offSession, sessions, max_sessions, lock, now, lastCreate, lastGetActive, swept >>

\* get_active, session.py:297-299: is_active on the object get returned
GetActiveReturn(t) ==
    /\ thread[t].pc = "get_active"
    /\ LET id == thread[t].id
           ret == thread[t].found /\ IsActive(session[id])
       IN lastGetActive' = [done |-> TRUE, remaining |-> session[id].expires_at - now,
                            returned |-> ret]
    /\ thread' = [thread EXCEPT ![t] = IdleThread]
    /\ UNCHANGED << offSession, sessions, session, max_sessions, lock, now, lastCreate, swept >>

\* SessionManager.close, session.py:301-323, and Session.close, session.py:199-202
Close(id) ==
    /\ LockFree
    /\ id \in sessions
    /\ session' = [session EXCEPT ![id] = Touch([@ EXCEPT !.status = "CLOSED"])]
    /\ UNCHANGED << offSession, sessions, max_sessions, lock, thread, now,
                    lastCreate, lastGetActive, swept >>

\* SessionManager.delete, session.py:325-331
Delete(id) ==
    /\ LockFree
    /\ id \in sessions
    /\ sessions' = sessions \ { id }
    /\ UNCHANGED << offSession, session, max_sessions, lock, thread, now,
                    lastCreate, lastGetActive, swept >>

\* Session.create_task, session.py:166-183, on an object a caller holds
CreateTask(id) ==
    /\ session[id].status # "none"
    /\ session[id].tasks_count < MaxTasks
    /\ session' = [session EXCEPT ![id] = Touch([@ EXCEPT !.tasks_count = @ + 1])]
    /\ UNCHANGED << offSession, sessions, max_sessions, lock, thread, now,
                    lastCreate, lastGetActive, swept >>

\* one round of _cleanup_loop, session.py:374-376
Sweep ==
    /\ LockFree
    /\ sessions' = CleanedUp
    /\ swept' = swept \cup (sessions \ CleanedUp)
    /\ UNCHANGED << offSession, session, max_sessions, lock, thread, now,
                    lastCreate, lastGetActive >>

\* a second passes
Tick ==
    /\ now < MaxTime
    /\ now' = now + 1
    /\ UNCHANGED << offSession, sessions, session, max_sessions, lock, thread,
                    lastCreate, lastGetActive, swept >>

SessionInit ==
    /\ StreamInit
    /\ DriverInit
    /\ RestInit
    /\ \E max \in MaxSessionsChoices : ManagerInit(max)

SessionNext ==
    \/ \E t \in Threads : CreateCheck(t)
    \/ \E t \in Threads, d \in Timeouts : CreateInsert(t, d)
    \/ \E i \in SessionIds : Get(i)
    \/ \E t \in Threads, i \in SessionIds : GetActiveGet(t, i)
    \/ \E t \in Threads : GetActiveReturn(t)
    \/ \E i \in SessionIds : Close(i)
    \/ \E i \in SessionIds : Delete(i)
    \/ \E i \in SessionIds : CreateTask(i)
    \/ Sweep
    \/ Tick

SessionSpec == SessionInit /\ [][SessionNext]_vars

\* Fair scheduling of the manager: the clock advances, the cleanup loop comes
\* round (session.py:370-376), a thread inside create or get_active finishes
\* its call, and callers keep asking for every session with get.
SessionFairness ==
    /\ WF_vars(Tick)
    /\ WF_vars(Sweep)
    /\ \A i \in SessionIds : WF_vars(Get(i))
    /\ \A t \in Threads : WF_vars(GetActiveReturn(t))
    /\ \A t \in Threads : WF_vars(\E d \in Timeouts : CreateInsert(t, d))

FairSessionSpec == SessionSpec /\ SessionFairness

\* ------------------------------------------------- properties of sessions
\* C11: under every interleaving of the manager's operations, two creates
\* at once included, the table never holds more than max_sessions sessions.
C11_TableWithinCapacity == Cardinality(sessions) <= max_sessions

\* a create is between its capacity test and its insert, one place left
C11_Witness ==
    /\ \E t \in Threads : thread[t].pc = "create"
    /\ Cardinality(sessions) = max_sessions - 1
    /\ max_sessions = 2

\* C12: create raises the capacity error exactly when the table holds
\* max_sessions sessions and none of them is expired (its expiry instant
\* reached) or CLOSED, and then the table is as it was; when the table is
\* full and some session is expired or CLOSED, create removes those sessions
\* and succeeds.
C12_CreateFailsOnlyWhenNothingRemovable ==
    LET c == lastCreate
        full == Cardinality(c.before) >= max_sessions
    IN (c.done \/ \E t \in Threads : thread[t].pc = "create") =>
          /\ c.raised <=> (full /\ c.removable = {})
          /\ c.raised => c.after = c.before
          /\ (full /\ c.removable # {}) =>
                 /\ ~c.raised
                 /\ c.after \cap c.before = c.before \ c.removable
          /\ (c.done /\ ~c.raised) => Cardinality(c.after \ c.before) = 1

\* C13: a get_active call whose is_active test runs when now >= expires_at,
\* the instant now = expires_at included, returns nothing, whatever touch,
\* create_task or get calls came before.
C13_NoActiveSessionFromExpiryOn ==
    (lastGetActive.done /\ lastGetActive.remaining <= 0) => ~lastGetActive.returned

\* get_active gives nothing back once the expiry instant has passed
C13_NoActiveSessionAfterExpiry ==
    (lastGetActive.done /\ lastGetActive.remaining < 0) => ~lastGetActive.returned

\* C14: every session ever created has expires_at = created_at +
\* timeout_seconds, from its creation on and after any touch, create_task,
\* close, get, sweep or delete.
C14_ExpiryIsAbsolute ==
    \A i \in SessionIds :
        session[i].status # "none" =>
            session[i].expires_at = session[i].created_at + session[i].timeout_seconds

\* one session was given a task and closed after its creation second,
\* another was found expired by get
C14_Witness ==
    \E i, j \in SessionIds :
        /\ session[i].status = "CLOSED"
        /\ session[i].tasks_count = 1
        /\ session[i].updated_at > session[i].created_at
        /\ session[j].status = "EXPIRED"

\* C15: under fair scheduling of the manager's operations and of the sweep,
\* a stored ACTIVE session whose expiry instant has passed eventually has
\* status EXPIRED, unless a caller closes or deletes it first.
C15_ExpiredSessionBecomesExpired ==
    \A i \in SessionIds :
        (i \in sessions /\ session[i].status = "ACTIVE" /\ now > session[i].expires_at)
            ~> \/ session[i].status \in { "EXPIRED", "CLOSED" }
               \/ i \notin sessions /\ i \notin swept

\* a session the sweep has removed is never stored again and keeps the status
\* it was removed with, whatever the clock shows
C15_SweptStatusIsFinal ==
    [][\A i \in swept : i \notin sessions' /\ session'[i].status = session[i].status]_vars

\* ================================================================ STT driver
\* One AliyunSttService and its keep-alive task, src/src/perception/stt/aliyun.py,
\* with time in whole seconds.  The loop's asyncio.sleep returns at the second
\* it is due: a timer that is never late is the most regular schedule the
\* loop can have.

\* start_session succeeds, aliyun.py:52-89, on a driver that is not running;
\* the keep-alive task it creates reaches its first sleep at once
StartSession ==
    /\ ~stt_running
    /\ stt_session_id' = "set"
    /\ recognition' = TRUE
    /\ stt_running' = TRUE
    /\ last_audio_time' = clock
    /\ keepalive_task' = "sleep"
    /\ wake_at' = clock + KEEPALIVE_INTERVAL
    /\ silence_frames' = 0
    /\ life' = "started"
    /\ errored' = FALSE
    /\ sent_after_error' = FALSE
    /\ UNCHANGED << offDriver, clock, lastStop, lastSend, mock_running, transport_errors,
                    on_error_calls >>

\* start_session fails in Recognition.start(), aliyun.py:73-81, 96-104
StartSessionFail ==
    /\ ~stt_running /\ ~recognition
    /\ stt_session_id' = "set"
    /\ recognition' = TRUE
    /\ life' = "start_failed"
    /\ UNCHANGED << offDriver, stt_running, last_audio_time, keepalive_task, wake_at,
                    clock, silence_frames, lastStop, sendHist, mock_running >>

\* what Recognition.send_audio_frame of the SDK can do with a frame: take it,
\* raise "Speech recognition has stopped", or raise another exception
UpstreamAnswers == { "ok", "has stopped", "error" }

\* send_audio with real audio, aliyun.py:176-198
SendAudio ==
    \E answer \in UpstreamAnswers :
        LET reached == stt_running /\ recognition
            ok == reached /\ answer = "ok"
            fails == reached /\ answer = "error"
        IN  /\ answer = "error" => transport_errors < MaxErrors
            /\ IF ok
               THEN /\ last_audio_time' = clock
                    /\ silence_frames' = 0
               ELSE UNCHANGED << last_audio_time, silence_frames >>
            /\ transport_errors' = IF fails THEN transport_errors + 1 ELSE transport_errors
            /\ on_error_calls' = IF fails THEN on_error_calls + 1 ELSE on_error_calls
            /\ errored' = (errored \/ fails)
            /\ sent_after_error' = (sent_after_error \/ (errored /\ ok))
            /\ lastSend' = [done |-> TRUE, impl |-> "aliyun", running |-> stt_running,
                            at |-> clock,
                            answer |-> IF reached THEN answer ELSE "none",
                            forwarded |-> ok, on_error |-> fails, raised |-> fails]
            /\ UNCHANGED << offDriver, stt_running, recognition, keepalive_task, wake_at,
                            clock, stt_session_id, life, lastStop, mock_running >>

\* SttCallback.on_error, called by the SDK's thread, aliyun.py:157-169
SdkOnError ==
    /\ stt_running /\ recognition
    /\ transport_errors < MaxErrors
    /\ transport_errors' = transport_errors + 1
    /\ on_error_calls' = on_error_calls + 1
    /\ errored' = TRUE
    /\ UNCHANGED << offDriver, stt_running, recognition, last_audio_time, keepalive_task,
                    wake_at, clock, silence_frames, stt_session_id, life, lastStop,
                    lastSend, mock_running, sent_after_error >>

\* variant: a silence frame at every round of the loop
IdleAlways == TRUE

\* the elapsed time that makes the loop send a silence frame, aliyun.py:208-209
Idle == clock - last_audio_time >= KEEPALIVE_INTERVAL

\* the sleep of _keepalive_loop returns: one round of the loop, aliyun.py:203-215
KeepaliveWake ==
    /\ keepalive_task = "sleep"
    /\ clock >= wake_at
    /\ silence_frames' = IF stt_running /\ recognition /\ Idle
                         THEN silence_frames + 1 ELSE silence_frames
    /\ sent_after_error' = (sent_after_error \/ (errored /\ stt_running /\ recognition /\ Idle))
    /\ IF stt_running /\ recognition
       THEN /\ wake_at' = clock + KEEPALIVE_INTERVAL
            /\ UNCHANGED keepalive_task
       ELSE /\ keepalive_task' = "done"
            /\ UNCHANGED wake_at
    /\ UNCHANGED << offDriver, stt_running, recognition, last_audio_time, clock,
                    stt_session_id, life, lastStop, lastSend, mock_running,
                    transport_errors, on_error_calls, errored >>

\* variant: a stop_session that always calls the upstream stop
StopsUpstreamAlways == TRUE

\* stop_session reaches self._recognition.stop(), aliyun.py:314-316
StopsUpstream == recognition

\* stop_session, aliyun.py:303-327; an exception of the upstream stop is
\* logged and not raised (317-318)
StopSession ==
    /\ keepalive_task' = "none"
    /\ recognition' = FALSE
    /\ stt_running' = IF StopsUpstream THEN FALSE ELSE stt_running
    /\ stt_session_id' = "none"
    /\ life' = "stopped"
    /\ lastStop' = [done |-> TRUE, life |-> life, upstream |-> StopsUpstream,
                    same |-> driverState' = driverState]
    /\ UNCHANGED << offDriver, last_audio_time, wake_at, clock, silence_frames, sendHist,
                    mock_running >>

\* ClockStep seconds pass; a sleep that is due returns before the next one
ClockTick ==
    /\ clock < MaxClock
    /\ keepalive_task = "sleep" => clock < wake_at
    /\ clock' = clock + ClockStep
    /\ UNCHANGED << offDriver, stt_running, recognition, last_audio_time, keepalive_task,
                    wake_at, silence_frames, stt_session_id, life, lastStop, sendHist,
                    mock_running >>

\* everything of the driver component but the MockSttService and the send log
offMock == << stt_running, recognition, last_audio_time, keepalive_task, wake_at, clock,
              silence_frames, stt_session_id, life, lastStop, transport_errors,
              on_error_calls, errored, sent_after_error >>

\* MockSttService.start_session, aliyun.py:342-346
MockStartSession ==
    /\ mock_running' = TRUE
    /\ UNCHANGED << offDriver, offMock, lastSend >>

\* MockSttService.send_audio, aliyun.py:348-363: raises when the session is
\* not running, else reports a fixed final result
MockSendAudio ==
    /\ lastSend' = [done |-> TRUE, impl |-> "mock", running |-> mock_running, at |-> 0,
                    answer |-> "none", forwarded |-> FALSE, on_error |-> FALSE,
                    raised |-> ~mock_running]
    /\ UNCHANGED << offDriver, offMock, mock_running >>

\* MockSttService.stop_session, aliyun.py:365-368
MockStopSession ==
    /\ mock_running' = FALSE
    /\ UNCHANGED << offDriver, offMock, lastSend >>

DriverSpecInit ==
    /\ StreamInit
    /\ ManagerInit(1)
    /\ DriverInit
    /\ RestInit

DriverNext ==
    \/ StartSession
    \/ StartSessionFail
    \/ SendAudio
    \/ KeepaliveWake
    \/ StopSession
    \/ ClockTick
    \/ SdkOnError
    \/ MockStartSession
    \/ MockSendAudio
    \/ MockStopSession

DriverSpec == DriverSpecInit /\ [][DriverNext]_vars

\* ------------------------------------------------- properties of the driver
\* no round of the keep-alive loop is due and not yet run
KeepaliveSettled == ~(keepalive_task = "sleep" /\ clock >= wake_at)

\* C20: a running session that has had no real audio for T seconds has been
\* sent exactly floor(T / KEEPALIVE_INTERVAL) silence frames in that time.
C20_SilenceFramesMatchIdleTime ==
    (stt_running /\ recognition /\ KeepaliveSettled) =>
        silence_frames = (clock - last_audio_time) \div KEEPALIVE_INTERVAL

\* C21: stop_session on a driver that was stopped before, or was never
\* started, makes no upstream stop call and leaves the driver's attributes as
\* they were (it cannot raise: stop_session has no raise outside its
\* try blocks).
C21_StopWhenStoppedIsNoOp ==
    (lastStop.done /\ lastStop.life \in { "new", "stopped" }) =>
        (~lastStop.upstream /\ lastStop.same)

\* a second stop_session after a session that ran and was stopped
C21_Witness ==
    /\ lastStop.done /\ lastStop.life = "stopped"
    /\ life = "stopped"
    /\ last_audio_time > 0

\* a send_audio call that found the session not running, or whose frame the
\* upstream refused with "has stopped"
SendDropped == lastSend.done /\ (~lastSend.running \/ lastSend.answer = "has stopped")

\* C22: in every STT driver, send_audio on a session that is not running, or
\* whose upstream answers "has stopped", is dropped silently: nothing goes
\* upstream, on_error is not called, and the call does not raise.
C22_SendWhenNotRunningIsDropped ==
    SendDropped => (~lastSend.forwarded /\ ~lastSend.on_error /\ ~lastSend.raised)

\* the part of C22 that AliyunSttService keeps
C22_AliyunDropsSilently ==
    (SendDropped /\ lastSend.impl = "aliyun") =>
        (~lastSend.forwarded /\ ~lastSend.on_error /\ ~lastSend.raised)

\* an AliyunSttService call dropped after the upstream's "has stopped"
C22_AliyunWitness ==
    lastSend.done /\ lastSend.impl = "aliyun" /\ lastSend.answer = "has stopped"

\* C23: once the upstream has reported a transport error, the session is
\* over: the driver is not running.
C23_TransportErrorEndsSession == errored => ~stt_running

\* C23, second part: no audio and no keep-alive frame goes upstream after
\* the error.
C23_NoFrameAfterError == ~sent_after_error

\* C23, first part: every error the upstream reports reaches on_error once
C23_ErrorSurfacedOnce == on_error_calls = transport_errors

\* ---------------------------------------------------------- TriggerEngine
\* ModalityType and EventStage, events.py:13-25
Modalities == { "text", "audio", "image", "video" }
Stages == { "partial", "final", "error" }

\* the texts of an event: empty, blank, short, padded, longer than five
Contents == { <<>>, <<" ">>, <<" ", "a">>, <<"a", "b", "c", "d", "e", "f">> }
Confidences == { 0, 1 }
TaskIds == { 1, 2 }

\* what the judge's LlmService.chat does: answers, or raises
JudgeReplies == { <<"Y", "E", "S">>, <<" ", "y", "e", "s">>, <<"N", "O">> }
JudgeRaises == [raises |-> TRUE, content |-> <<>>]
JudgeOutcomes == { [raises |-> FALSE, content |-> r] : r \in JudgeReplies } \cup { JudgeRaises }

\* str.upper() on the characters a reply is made of
UpperChar(c) == CASE c = "y" -> "Y" [] c = "e" -> "E" [] c = "s" -> "S" [] OTHER -> c
Upper(t) == [i \in 1..Len(t) |-> UpperChar(t[i])]

\* _is_actionable_speech, trigger.py:89-105, once the service is there
IsActionableSpeech(event, outcome) ==
    IF outcome.raises
    THEN Len(Strip(event.content)) > 5
    ELSE Upper(Strip(outcome.content)) = <<"Y", "E", "S">>

\* variant: the rule applied to the text as received
AudioFinalRuleUntrimmed(event) == Len(event.content) > 0

\* rule 3 without the judge, trigger.py:56
AudioFinalRule(event) == event.content # <<>> /\ Len(Strip(event.content)) > 0

\* should_invoke_agent, trigger.py:27-65; the task (tid) is read by the log
\* lines only
ShouldInvokeAgentValue(judge, tid, event, outcome) ==
    IF event.stage = "error" THEN FALSE
    ELSE IF event.modality = "text" /\ event.stage = "final" THEN TRUE
    ELSE IF event.modality = "audio" /\ event.stage = "final" /\ judge
         THEN IsActionableSpeech(event, outcome)
    ELSE IF event.modality = "audio" /\ event.stage = "final" /\ AudioFinalRule(event)
         THEN TRUE
    ELSE IF event.modality = "image" /\ event.stage = "final" THEN TRUE
    ELSE FALSE

\* the call reaches _is_actionable_speech, trigger.py:51-53
ReachesJudge(judge, event) ==
    event.stage # "error" /\ event.modality = "audio" /\ event.stage = "final" /\ judge

\* one call of should_invoke_agent
ShouldInvokeAgent ==
    /\ ~trig_result.done
    /\ \E outcome \in JudgeOutcomes :
        LET judged == ReachesJudge(use_llm_judge, trig_event)
        IN  /\ judged \/ outcome = JudgeRaises
            /\ trig_result' = [done |-> TRUE,
                               value |-> ShouldInvokeAgentValue(use_llm_judge, trig_task,
                                                                trig_event, outcome),
                               raised |-> FALSE, judged |-> judged,
                               failed |-> judged /\ outcome.raises]
            /\ llm_service' = (llm_service \/ judged)
    /\ UNCHANGED << offTrigger, use_llm_judge, trig_task, trig_event >>

\* LlmRegistry.get_service raises at the first judged call, trigger.py:73-75
ShouldInvokeAgentNoService ==
    /\ ~trig_result.done
    /\ ReachesJudge(use_llm_judge, trig_event)
    /\ ~llm_service
    /\ trig_result' = [done |-> TRUE, value |-> FALSE, raised |-> TRUE, judged |-> TRUE,
                       failed |-> FALSE]
    /\ UNCHANGED << offTrigger, use_llm_judge, llm_service, trig_task, trig_event >>

\* the caller comes back with the next event
NextEvent ==
    /\ trig_result.done
    /\ \E tid \in TaskIds, m \in Modalities, st \in Stages, c \in Contents,
          conf \in Confidences :
        /\ trig_task' = tid
        /\ trig_event' = PerceptionEvent(m, st, c, conf)
    /\ trig_result' = NoResult
    /\ UNCHANGED << offTrigger, use_llm_judge, llm_service >>

TriggerSpecInit ==
    /\ StreamInit
    /\ ManagerInit(1)
    /\ DriverInit
    /\ \E judge \in BOOLEAN, tid \in TaskIds, m \in Modalities, st \in Stages,
          c \in Contents, conf \in Confidences :
        TriggerInit(judge, tid, PerceptionEvent(m, st, c, conf))
    /\ OrchInit("none", FALSE)
    /\ ProcessInit(<<>>, <<>>)
    /\ ContextInit

TriggerNext ==
    \/ ShouldInvokeAgent
    \/ ShouldInvokeAgentNoService
    \/ NextEvent

TriggerSpec == TriggerSpecInit /\ [][TriggerNext]_vars

\* the specified rule-only result, from modality, stage and trimmed text
RuleOnly(modality, stage, trimmed) ==
    CASE stage = "error" -> FALSE
      [] stage = "final" /\ modality \in { "text", "image" } -> TRUE
      [] stage = "final" /\ modality = "audio" -> trimmed # <<>>
      [] OTHER -> FALSE

\* C24: without the LLM judge, should_invoke_agent returns false for an
\* ERROR event, true for TEXT FINAL and IMAGE FINAL, true for AUDIO FINAL
\* exactly when the trimmed content is not empty, and false for every other
\* event; the result is a function of modality, stage and trimmed content.
C24_RuleOnlyResult ==
    (trig_result.done /\ ~use_llm_judge) =>
        /\ ~trig_result.raised
        /\ ~trig_result.judged
        /\ trig_result.value =
               RuleOnly(trig_event.modality, trig_event.stage, Strip(trig_event.content))

\* a blank AUDIO FINAL is turned down in rule-only mode
C24_Witness ==
    /\ trig_result.done /\ ~use_llm_judge
    /\ trig_event.modality = "audio" /\ trig_event.stage = "final"
    /\ trig_event.content = <<" ">>
    /\ ~trig_result.value

\* ------------------------------------------------------------ Orchestrator
Flows == { "audio", "text", "none" }
Terminal == { "completed", "failed", "cancelled" }
Instruction == <<"a">>

\* what the STT callbacks put on result_queue, engine.py:134-158
SttItems ==
    { [type |-> "ready", event |-> PerceptionEvent("audio", "partial", <<>>, 0)],
      [type |-> "error", event |-> PerceptionEvent("audio", "error", <<>>, 0)] }
    \cup { [type |-> "partial", event |-> PerceptionEvent("audio", "partial", c, 0)] :
             c \in PartialTexts }
    \cup { [type |-> "final", event |-> PerceptionEvent("audio", "final", c, 1)] :
             c \in { <<" ">>, <<"a">> } }

\* the event a callback builds, with the event_id it is given, engine.py:134-152
Identified(e, n) ==
    [event_id |-> n, modality |-> e.modality, stage |-> e.stage, content |-> e.content,
     confidence |-> e.confidence]

Event(type) == [type |-> type, error |-> "none"]
ErrorEvent(text) == [type |-> "error", error |-> text]

\* Task.update_status, task.py:137-140
TaskUpdateStatus(t, status) ==
    [t EXCEPT !.status = status,
              !.left_terminal = @ \/ (t.status \in Terminal /\ status # t.status)]

\* Task.complete, task.py:152-156
TaskComplete(t, content) ==
    [t EXCEPT !.result = [set |-> TRUE, content |-> content],
              !.status = "completed",
              !.result_writes = @ + 1,
              !.left_terminal = @ \/ (t.status \in Terminal /\ t.status # "completed")]

\* variant: a fail that records the error and leaves the status
TaskFailKeepsStatus(t, error) ==
    [t EXCEPT !.error = error, !.error_writes = @ + 1]

\* Task.fail, task.py:158-162
TaskFail(t, error) ==
    [t EXCEPT !.error = error,
              !.status = "failed",
              !.error_writes = @ + 1,
              !.left_terminal = @ \/ (t.status \in Terminal /\ t.status # "failed")]

\* the except clause of execute, engine.py:117-120, entered from task t
Raise(t, text) ==
    /\ task' = TaskFail(t, text)
    /\ yielded' = Append(yielded, ErrorEvent(text))
    /\ raised' = text
    /\ opc' = "done"

\* engine.py:110-115: the end of the try block
Complete(t) ==
    /\ task' = IF t.status # "completed" THEN TaskUpdateStatus(t, "completed") ELSE t
    /\ yielded' = Append(yielded, Event("complete"))
    /\ opc' = "done"

\* the first resumption of execute, engine.py:56-108, up to its first yield
\* or await: the text branch yields the perception event, the audio branch
\* awaits start_session, which can raise (aliyun.py:91-104)
ExecuteStart ==
    /\ opc = "new"
    /\ LET t == TaskUpdateStatus(task, "perceiving")
       IN  CASE flow = "audio" ->
                  \/ /\ task' = t
                     /\ opc' = "queue"
                     /\ send_task' = "running"
                     /\ UNCHANGED << yielded, raised >>
                  \/ /\ Raise(t, "start_session failed")
                     /\ UNCHANGED send_task
             [] flow = "text" ->
                  /\ task' = [t EXCEPT !.perception_buffer =
                                  Append(@, PerceptionEvent("text", "final", Instruction, 1))]
                  /\ yielded' = Append(yielded, Event("perception"))
                  /\ opc' = "text_yielded"
                  /\ UNCHANGED << send_task, raised >>
             [] OTHER ->
                  /\ task' = TaskUpdateStatus(t, "thinking")
                  /\ opc' = "agent"
                  /\ UNCHANGED << send_task, yielded, raised >>
    /\ nDeltas' = 0
    /\ full_content' = <<>>
    /\ prompts' = IF flow = "none" THEN Append(prompts, task.perception_buffer) ELSE prompts
    /\ UNCHANGED << offOrch, flow, use_llm_trigger, after_item, result_queue, nItems >>

\* the text branch goes on after its perception event, engine.py:99-101
ExecuteTextThinking ==
    /\ opc = "text_yielded"
    /\ task' = TaskUpdateStatus(task, "thinking")
    /\ opc' = "agent"
    /\ nDeltas' = 0
    /\ full_content' = <<>>
    /\ prompts' = Append(prompts, task.perception_buffer)
    /\ UNCHANGED << offOrch, flow, use_llm_trigger, after_item, result_queue, send_task,
                    yielded, raised, nItems >>

\* a callback of the STT service, from the SDK's thread, engine.py:134-158
SttCallback ==
    /\ send_task = "running"
    /\ nItems < MaxSttItems
    /\ \E item \in SttItems :
          result_queue' = Append(result_queue,
                                 [item EXCEPT !.event = Identified(@, nItems + 1)])
    /\ nItems' = nItems + 1
    /\ UNCHANGED << offOrch, task, flow, use_llm_trigger, opc, after_item, send_task,
                    yielded, raised, nDeltas,
                    full_content, prompts >>

\* the send_audio coroutine ends, engine.py:177-180: the audio is exhausted
\* and the session stopped, or send_audio raised
SendTaskEnds ==
    /\ send_task = "running"
    /\ \E how \in { "done", "failed" } : send_task' = how
    /\ UNCHANGED << offOrch, task, flow, use_llm_trigger, opc, after_item, result_queue,
                    yielded, raised, nItems, nDeltas, full_content, prompts >>

\* result_queue.get() returns an item, engine.py:187-205: the item is
\* yielded (a final is appended to the buffer first)
AudioItem ==
    /\ opc = "queue"
    /\ result_queue # <<>>
    /\ LET item == Head(result_queue)
       IN  /\ result_queue' = Tail(result_queue)
           /\ task' = IF item.type = "final"
                      THEN [task EXCEPT !.perception_buffer = Append(@, item.event)]
                      ELSE task
           /\ yielded' = Append(yielded,
                  CASE item.type = "ready" -> Event("stt_ready")
                    [] item.type = "error" -> ErrorEvent("stt error")
                    [] OTHER -> Event("perception"))
           /\ after_item' = IF item.type = "error" THEN "break" ELSE "loop"
    /\ opc' = "item_yielded"
    /\ UNCHANGED << offOrch, flow, use_llm_trigger, send_task, raised, nItems, nDeltas,
                    full_content, prompts >>

\* wait_for times out with the send task over, engine.py:207-209, and the
\* generator goes on to 'await send_task'
AudioTimeout ==
    /\ opc = "queue"
    /\ result_queue = <<>>
    /\ send_task # "running"
    /\ opc' = "await_send"
    /\ UNCHANGED << offOrch, task, flow, use_llm_trigger, after_item, result_queue,
                    send_task, yielded, raised, nItems, nDeltas, full_content, prompts >>

\* execute is resumed after an event of the audio stream, engine.py:69-72:
\* with a buffer it asks the trigger about the latest event
ExecuteAfterItem ==
    /\ opc = "item_yielded"
    /\ LET buffer == task.perception_buffer
           latest == buffer[Len(buffer)]
           back == IF after_item = "break" THEN "await_send" ELSE "queue"
       IN  IF buffer = <<>>
           THEN /\ opc' = back
                /\ UNCHANGED << task, yielded, raised >>
           ELSE \E outcome \in JudgeOutcomes :
                  /\ ReachesJudge(use_llm_trigger, latest) \/ outcome = JudgeRaises
                  /\ IF ShouldInvokeAgentValue(use_llm_trigger, 1, latest, outcome)
                     THEN /\ task' = TaskUpdateStatus(task, "thinking")
                          /\ opc' = "agent"
                     ELSE /\ opc' = back
                          /\ UNCHANGED task
                  /\ UNCHANGED << yielded, raised >>
    /\ nDeltas' = 0
    /\ full_content' = <<>>
    /\ prompts' = IF opc' = "agent" THEN Append(prompts, task.perception_buffer) ELSE prompts
    /\ UNCHANGED << offOrch, flow, use_llm_trigger, after_item, result_queue, send_task,
                    nItems >>

\* the trigger cannot get its LLM service, trigger.py:73-75
ExecuteTriggerRaises ==
    /\ opc = "item_yielded"
    /\ task.perception_buffer # <<>>
    /\ ReachesJudge(use_llm_trigger, task.perception_buffer[Len(task.perception_buffer)])
    /\ Raise(task, "no llm service")
    /\ UNCHANGED << offOrch, flow, use_llm_trigger, after_item, result_queue, send_task,
                    nItems, nDeltas, full_content, prompts >>

\* _invoke_agent takes a chunk of chat_stream, engine.py:253-262; a chunk
\* with text is yielded as a thinking event
AgentChunk ==
    /\ opc = "agent"
    /\ nDeltas < MaxChunks
    /\ \E delta \in Deltas :
        /\ full_content' = full_content \o delta
        /\ yielded' = IF delta # <<>> THEN Append(yielded, Event("thinking")) ELSE yielded
    /\ nDeltas' = nDeltas + 1
    /\ UNCHANGED << offOrch, task, flow, use_llm_trigger, opc, after_item, result_queue,
                    send_task, raised, nItems, prompts >>

\* chat_stream ends, engine.py:264-282: the step and the result are
\* recorded and the answer is yielded
AgentAnswer ==
    /\ opc = "agent"
    /\ task' = TaskComplete([task EXCEPT !.steps = @ + 1], full_content)
    /\ yielded' = Append(yielded, Event("answer"))
    /\ opc' = "answered"
    /\ UNCHANGED << offOrch, flow, use_llm_trigger, after_item, result_queue, send_task,
                    raised, nItems, nDeltas, full_content, prompts >>

\* the LLM service raises, at the start or between chunks, qwen.py:157-264
AgentRaises ==
    /\ opc = "agent"
    /\ Raise(task, "llm failed")
    /\ UNCHANGED << offOrch, flow, use_llm_trigger, after_item, result_queue, send_task,
                    nItems, nDeltas, full_content, prompts >>

\* variant: the buffer is left as it is after the invocation
KeptBuffer(t) == t

\* task.perception_buffer.clear(), engine.py:80
ClearedBuffer(t) == [t EXCEPT !.perception_buffer = <<>>]

\* execute is resumed after the answer: the audio branch clears the buffer
\* and goes back to perceiving, engine.py:77-81; the others finish, 110-115
ExecuteAfterAnswer ==
    /\ opc = "answered"
    /\ IF flow = "audio"
       THEN /\ task' = TaskUpdateStatus(ClearedBuffer(task), "perceiving")
            /\ opc' = IF after_item = "break" THEN "await_send" ELSE "queue"
            /\ UNCHANGED yielded
       ELSE Complete(task)
    /\ UNCHANGED << offOrch, flow, use_llm_trigger, after_item, result_queue, send_task,
                    raised, nItems, nDeltas, full_content, prompts >>

\* 'await send_task' returns or raises, engine.py:212-218, and the audio
\* branch is over
AudioEnds ==
    /\ opc = "await_send"
    /\ send_task # "running"
    /\ IF send_task = "failed"
       THEN Raise(task, "send_audio failed")
       ELSE /\ Complete(task)
            /\ UNCHANGED raised
    /\ UNCHANGED << offOrch, flow, use_llm_trigger, after_item, result_queue, send_task,
                    nItems, nDeltas, full_content, prompts >>

OrchSpecInit ==
    /\ StreamInit
    /\ ManagerInit(1)
    /\ DriverInit
    /\ TriggerInit(FALSE, 1, PerceptionEvent("text", "final", <<>>, 1))
    /\ ProcessInit(<<>>, <<>>)
    /\ ContextInit
    /\ \E f \in Flows, judge \in BOOLEAN : OrchInit(f, judge)

OrchNext ==
    \/ ExecuteStart
    \/ ExecuteTextThinking
    \/ SttCallback
    \/ SendTaskEnds
    \/ AudioItem
    \/ AudioTimeout
    \/ ExecuteAfterItem
    \/ ExecuteTriggerRaises
    \/ AgentChunk
    \/ AgentAnswer
    \/ AgentRaises
    \/ ExecuteAfterAnswer
    \/ AudioEnds

OrchSpec == OrchSpecInit /\ [][OrchNext]_vars

\* C25: a task that has reached COMPLETED, FAILED or CANCELLED keeps that
\* status, and its result and its error are each written at most once, in
\* the audio, the text and the no-modality flow.
C25_TerminalStatusIsFinal ==
    /\ ~task.left_terminal
    /\ task.result_writes <= 1
    /\ task.error_writes <= 1

\* the part of C25 that holds outside the audio flow
C25_FinalOutsideAudioFlow == flow # "audio" => C25_TerminalStatusIsFinal

\* C26: when a step of execute has raised, the run ends with the task
\* FAILED, its error the text of the exception, the error event last and
\* no complete event.
C26_RaiseFailsTask ==
    raised # "none" =>
        /\ opc = "done"
        /\ task.status = "failed"
        /\ task.error = raised
        /\ yielded[Len(yielded)] = ErrorEvent(raised)
        /\ \A i \in 1..Len(yielded) : yielded[i].type # "complete"

\* the LLM fails after a thinking event of a second invocation
C26_Witness ==
    /\ raised = "llm failed"
    /\ task.result.set
    /\ Len(yielded) >= 2
    /\ yielded[Len(yielded) - 1].type = "thinking"

\* ----------------------------------------------------------- unary Process
\* the inputs of a request: text with a role (possibly unset), audio, image
ModalityInputs ==
    { [kind |-> "text", role |-> r, content |-> <<"a">>] : r \in { "", "user", "system" } }
    \cup { [kind |-> "audio", role |-> "", content |-> <<>>],
           [kind |-> "image", role |-> "", content |-> <<>>] }

InputLists ==
    UNION { [1..n -> ModalityInputs] : n \in 0..MaxInputs }

\* what transcribe_once returns, aliyun.py:282: the finals joined by " "
Transcripts == { <<>>, <<" ">>, <<"a">> }

RECURSIVE TextInputs(_)
\* step 1, servicer.py:278-285
TextInputs(inputs) ==
    IF inputs = <<>> THEN <<>>
    ELSE LET inp == Head(inputs)
         IN  (IF inp.kind = "text"
              THEN << [role |-> IF inp.role = "" THEN "user" ELSE inp.role,
                       content |-> inp.content] >>
              ELSE <<>>) \o TextInputs(Tail(inputs))

HasAudio(inputs) == \E i \in 1..Len(inputs) : inputs[i].kind = "audio"

\* steps 2 and 3, servicer.py:287-311
Assemble(req, transcribed_text) ==
    (IF req.system_prompt # <<>>
     THEN << [role |-> "system", content |-> req.system_prompt] >> ELSE <<>>)
    \o TextInputs(req.inputs)
    \o (IF HasAudio(req.inputs) /\ transcribed_text # <<>>
        THEN << [role |-> "user", content |-> transcribed_text] >> ELSE <<>>)

\* variant: only an empty message list counts as no input
NoInputWhenEmpty(messages) == messages = <<>>

\* servicer.py:313
NoInput(messages) ==
    messages = <<>> \/ \A i \in 1..Len(messages) : messages[i].role = "system"

\* the except clause, servicer.py:364-373
ErrorResponse(assembled, messages, invoked) ==
    [done |-> TRUE, outputs |-> <<>>, finish_reason |-> "error", assembled |-> assembled,
     messages |-> messages, llm_invoked |-> invoked]

\* Process, servicer.py:256-373: transcribe_once and chat_stream answer or raise
Process ==
    /\ ~mm_response.done
    /\ \E transcribed_text \in Transcripts, stt_ok \in BOOLEAN, llm_ok \in BOOLEAN,
          full_response \in Deltas :
        LET messages == Assemble(request, transcribed_text)
        IN  /\ HasAudio(request.inputs) \/ (stt_ok /\ transcribed_text = <<>>)
            /\ mm_response' =
                 IF ~stt_ok THEN ErrorResponse(FALSE, <<>>, FALSE)
                 ELSE IF NoInput(messages)
                 THEN [done |-> TRUE, outputs |-> <<>>, finish_reason |-> "no_input",
                       assembled |-> TRUE, messages |-> messages, llm_invoked |-> FALSE]
                 ELSE IF ~llm_ok THEN ErrorResponse(TRUE, messages, TRUE)
                 ELSE [done |-> TRUE, outputs |-> << full_response >>,
                       finish_reason |-> "stop", assembled |-> TRUE,
                       messages |-> messages, llm_invoked |-> TRUE]
    /\ UNCHANGED << offProcess, request >>

\* the next request arrives
NextRequest ==
    /\ mm_response.done
    /\ \E inputs \in InputLists, system_prompt \in { <<>> } \cup SysPrompts :
        request' = [inputs |-> inputs, system_prompt |-> system_prompt]
    /\ mm_response' = NoResponse
    /\ UNCHANGED offProcess

ProcessSpecInit ==
    /\ StreamInit
    /\ ManagerInit(1)
    /\ DriverInit
    /\ TriggerInit(FALSE, 1, PerceptionEvent("text", "final", <<>>, 1))
    /\ OrchInit("none", FALSE)
    /\ ContextInit
    /\ \E inputs \in InputLists, system_prompt \in { <<>> } \cup SysPrompts :
        ProcessInit(inputs, system_prompt)

ProcessNext == Process \/ NextRequest

ProcessSpec == ProcessSpecInit /\ [][ProcessNext]_vars

\* the call had no inputs, or assembled nothing but system messages
NothingToAnswer ==
    \/ request.inputs = <<>>
    \/ /\ mm_response.assembled
       /\ \A i \in 1..Len(mm_response.messages) : mm_response.messages[i].role = "system"

\* C27: a Process call with no inputs, or whose assembled messages are all
\* system messages, returns no outputs with finish_reason "no_input" and
\* does not invoke the LLM.
C27_NoInputNoLlm ==
    (mm_response.done /\ NothingToAnswer) =>
        /\ mm_response.outputs = <<>>
        /\ mm_response.finish_reason = "no_input"
        /\ ~mm_response.llm_invoked

\* audio that transcribed to nothing, under a system prompt
C27_Witness ==
    /\ mm_response.done
    /\ HasAudio(request.inputs)
    /\ mm_response.assembled
    /\ Len(mm_response.messages) = 1
    /\ mm_response.messages[1].role = "system"
    /\ mm_response.finish_reason = "no_input"

\* --------------------------------------------------------- Session.context
\* the stored lists of the tasks that have a result, in task order
ResultLists(ts) == SelectSeq([i \in 1..Len(ts) |-> ts[i].result], LAMBDA l : l # 0)

RECURSIVE Extend(_, _, _)
\* the loop of Session.context, session.py:160-162, from task i on, with the
\* list built so far
Extend(ts, h, i) ==
    IF i > Len(ts) THEN <<>>
    ELSE (IF ts[i].result # 0 THEN h[ts[i].result] ELSE <<>>) \o Extend(ts, h, i + 1)

\* variant: the messages are gathered in the first stored list
ContextInPlace(ts, h) ==
    LET ls == ResultLists(ts)
    IN  IF ls = <<>> THEN [messages |-> <<>>, heap |-> h]
        ELSE [messages |-> Extend(ts, h, 1),
              heap |-> [h EXCEPT ![ls[1]] = Extend(ts, h, 1)]]

\* Session.context, session.py:157-163: a new list, extended with each
\* stored list in turn; the lists that exist are left as they are
Context(ts, h) == [messages |-> Extend(ts, h, 1), heap |-> h]

\* whether the stored lists of the tasks differ between two heaps
Mutated(ts, before, after) ==
    \E i \in 1..Len(ts) : ts[i].result # 0 /\ after[ts[i].result] # before[ts[i].result]

\* a caller reads session.context
ReadContext ==
    /\ LET c == Context(tasks, heap)
       IN  /\ heap' = c.heap
           /\ context_log' = [done |-> TRUE, messages |-> c.messages,
                              mutated |-> Mutated(tasks, heap, c.heap)]
    /\ UNCHANGED << offContext, tasks, completions >>

\* Session.create_task, session.py:166-183: the new task holds the context
\* read at its creation
SessionCreateTask ==
    /\ Len(tasks) < MaxSessionTasks
    /\ LET c == Context(tasks, heap)
           id == Len(c.heap) + 1
       IN  /\ heap' = Append(c.heap, c.messages)
           /\ tasks' = Append(tasks, [result |-> 0, context |-> id])
           /\ context_log' = [done |-> TRUE, messages |-> c.messages,
                              mutated |-> Mutated(tasks, heap, c.heap)]
    /\ UNCHANGED << offContext, completions >>

\* Task.complete with the TaskResult of _invoke_agent, task.py:152-156 and
\* engine.py:270-276: a new list of the turn's two messages
CompleteTask(i) ==
    /\ i \in 1..Len(tasks)
    /\ completions < MaxCompletions
    /\ LET id == Len(heap) + 1
           k == completions + 1
       IN  /\ heap' = Append(heap, << [role |-> "user", content |-> k],
                                      [role |-> "assistant", content |-> k] >>)
           /\ tasks' = [tasks EXCEPT ![i].result = id]
    /\ completions' = completions + 1
    /\ UNCHANGED << offContext, context_log >>

ContextSpecInit ==
    /\ StreamInit
    /\ ManagerInit(1)
    /\ DriverInit
    /\ TriggerInit(FALSE, 1, PerceptionEvent("text", "final", <<>>, 1))
    /\ OrchInit("none", FALSE)
    /\ ProcessInit(<<>>, <<>>)
    /\ ContextInit

ContextNext ==
    \/ ReadContext
    \/ SessionCreateTask
    \/ \E i \in 1..MaxSessionTasks : CompleteTask(i)

ContextSpec == ContextSpecInit /\ [][ContextNext]_vars

RECURSIVE Concat(_)
Concat(ls) == IF ls = <<>> THEN <<>> ELSE Head(ls) \o Concat(Tail(ls))

\* the specified context: the result messages of the tasks that have a
\* result, concatenated in task order
DerivedContext ==
    Concat([i \in 1..Len(ResultLists(tasks)) |-> heap[ResultLists(tasks)[i]]])

\* C28: at every state the session's context is the concatenation, in task
\* order, of the result messages of exactly the tasks that have a result,
\* and the last reading of the context, by a caller or by create_task, left
\* every stored list as it was.
C28_ContextIsDerived ==
    /\ Context(tasks, heap).messages = DerivedContext
    /\ ~context_log.mutated

\* a context read over a task with a result, one without, and a later one
\* with a result that was written first
C28_Witness ==
    /\ Len(tasks) = 3
    /\ tasks[1].result # 0 /\ tasks[2].result = 0 /\ tasks[3].result # 0
    /\ tasks[3].result < tasks[1].result
    /\ context_log.done
    /\ Len(context_log.messages) = 4
    /\ context_log.messages = DerivedContext

\* ------------------------------------------- ProcessStream: reader failures
\* the output loop is over, and not because the client went away
LoopLeft == mpc # "loop" /\ ~disconnected

\* the client has received one non-recoverable Error frame, as the last frame
OneErrorLast ==
    /\ Cardinality(FatalErrorsIn(delivered)) = 1
    /\ delivered # <<>>
    /\ delivered[Len(delivered)] = ErrorFrame(5000, FALSE)

\* C29: when the request reader has failed with an exception, the client
\* receives exactly one Error frame with code 5000 that is not recoverable,
\* after the frames streamed before, and nothing after it.
C29_ReaderFailureGivesOneError == (rpc = "failed" /\ LoopLeft) => OneErrorLast

\* the part of C29 that holds: the reader fails without the STT driver
\* having reported anything through on_error
C29_OneErrorWhenSttSilent == (rpc = "failed" /\ LoopLeft /\ ~SttFailed) => OneErrorLast

\* a reader that failed after an Llm frame was streamed, the stream closed
C29_SttSilentWitness ==
    /\ rpc = "failed" /\ ~SttFailed
    /\ mpc = "closed"
    /\ \E i \in 1..Len(delivered) : delivered[i].kind = "llm"

\* ------------------------------------------------ ProcessStream: STT results
\* the final results enqueued so far whose text is not blank
SpokenFinals(q) ==
    SelectSeq(q, LAMBDA f : f.kind = "stt" /\ f.flag /\ Strip(f.text) # <<>>)

\* the sentences the finals of a sequence of frames stand for
Sentences(q) == [i \in 1..Len(SpokenFinals(q)) |-> Strip(SpokenFinals(q)[i].text)]

\* the sentences a worker has taken
TurnsStarted == { u \in 1..Len(pushed) : TurnStarted(u) }

\* what the STT callbacks have left behind: the sentences pushed are the
\* trimmed texts of the non-blank finals, in order, and no more turns were
\* started than there are such finals
C30_SentencesAreSpokenFinals ==
    /\ pushed = Sentences(enq)
    /\ Cardinality(TurnsStarted) <= Len(SpokenFinals(enq))

\* a step of an STT callback enqueues one frame
C30_CallbackStep == nStt' # nStt => Len(enq') = Len(enq) + 1

\* C30: a final callback enqueues one Stt frame with is_final set and pushes
\* its trimmed text as one sentence exactly when that text is not empty; a
\* partial callback enqueues one Stt frame and pushes nothing; so no more
\* LLM turns are started than non-blank finals have arrived.
C30_FinalsFeedTurns == [](C30_SentencesAreSpokenFinals) /\ [][C30_CallbackStep]_vars

\* a blank final and a spoken one have arrived, and the one turn was started
C30_Witness ==
    /\ \E i \in 1..Len(enq) : enq[i] = SttFrame(<<" ">>, TRUE)
    /\ Len(SpokenFinals(enq)) = 1
    /\ pushed = << <<"a">> >>
    /\ TurnsStarted = { 1 }

\* ------------------------------------------------ SessionManager: the sweep
\* a step that ran _cleanup_expired: one round of the cleanup loop
\* (session.py:374-376) or a create that found the table full
\* (session.py:259-260)
SweepStep ==
    \/ Sweep
    \/ \E t \in Threads : CreateCheck(t) /\ Cardinality(sessions) >= max_sessions

\* C31: immediately after any sweep, the periodic one or the one inside
\* create, the table holds no session that is expired (its expiry instant
\* reached) or CLOSED, and every session that was neither is still in the
\* table, unchanged.
C31_SweepLeavesOnlyLive ==
    [][SweepStep =>
          /\ \A i \in sessions' :
                 /\ ~(now' >= session'[i].expires_at)
                 /\ session'[i].status # "CLOSED"
          /\ \A i \in sessions :
                 (~(now >= session[i].expires_at) /\ session[i].status # "CLOSED") =>
                     (i \in sessions' /\ session'[i] = session[i])]_vars

\* after any sweep the table holds no session whose expiry instant has
\* passed and none that is CLOSED, and the sessions that were neither are
\* still stored, unchanged
C31_SweepLeavesOnlyUnexpired ==
    [][SweepStep =>
          /\ \A i \in sessions' : ~(now' > session'[i].expires_at) /\ session'[i].status # "CLOSED"
          /\ \A i \in sessions :
                 ~Removable(session[i]) => (i \in sessions' /\ session'[i] = session[i])
          /\ sessions' \subseteq sessions]_vars

\* ------------------------------------------- SessionManager: closed sessions
\* C39: once a stored session's status is CLOSED, no step of the manager
\* (get, get_active, close, the sweep, create, delete) gives it another
\* status: it is CLOSED for as long as it is in the table.
C39_ClosedStaysClosed ==
    [][\A i \in sessions :
          session[i].status = "CLOSED" => session'[i].status = "CLOSED"]_vars

\* a get or get_active that did not find the session expired, a close, a
\* sweep, a create and a delete leave a CLOSED session's status alone
C39_ClosedUntilFoundExpired ==
    [][\A i \in sessions :
          (session[i].status = "CLOSED" /\ ~IsExpired(session[i])) =>
              session'[i].status = "CLOSED"]_vars

\* ------------------------------------------------ STT driver: the idle clock
\* a step in which the keep-alive loop sent a silence frame
SilenceInjected == silence_frames' = silence_frames + 1

\* a send_audio call whose frame went upstream
RealSend == SendAudio /\ lastSend'.forwarded

\* C32: the keep-alive loop sends a silence frame, at a return of its
\* timer, only if the session is running and at least KEEPALIVE_INTERVAL
\* seconds have passed since the last real audio frame went upstream (or
\* since the session started, when none has); every send_audio that sends
\* real audio sets the idle clock to the present; and no silence frame is
\* sent once stop_session has run.
C32_SilenceOnlyWhenIdle ==
    [][/\ SilenceInjected =>
              /\ keepalive_task = "sleep" /\ clock >= wake_at
              /\ stt_running /\ recognition
              /\ clock - last_audio_time >= KEEPALIVE_INTERVAL
              /\ lastSend.forwarded => clock - lastSend.at >= KEEPALIVE_INTERVAL
              /\ life = "started"
       /\ RealSend => (last_audio_time' = clock /\ lastSend'.at = clock)
       /\ life = "stopped" => silence_frames' <= silence_frames]_vars

\* a session started at second 0 had real audio at second 5; the round of
\* the loop at second 10 sent nothing and the round at second 20 sent the
\* first silence frame
C32_Witness ==
    /\ stt_running /\ recognition /\ life = "started"
    /\ lastSend.forwarded /\ lastSend.at = 5
    /\ last_audio_time = 5
    /\ silence_frames = 1
    /\ clock = 20 /\ wake_at = 30

\* ------------------------------------------- TriggerEngine: the judge fails
\* a call in LLM-judge mode, for an AUDIO FINAL event, whose chat call raised
JudgeFailed ==
    /\ trig_result.done /\ use_llm_judge /\ trig_result.failed
    /\ trig_event.modality = "audio" /\ trig_event.stage = "final"

\* C33: in LLM-judge mode, when the judge's call fails, should_invoke_agent
\* returns for an AUDIO FINAL event what rule-only mode returns: true
\* exactly when the trimmed content is not empty.
C33_FailedJudgeFallsBackToRule ==
    JudgeFailed =>
        /\ ~trig_result.raised
        /\ trig_result.value = RuleOnly("audio", "final", Strip(trig_event.content))

\* what the call returns when the judge fails: true exactly when the
\* trimmed content is longer than five characters
C33_FailedJudgeNeedsSixCharacters ==
    JudgeFailed =>
        /\ ~trig_result.raised
        /\ trig_result.value = (Len(Strip(trig_event.content)) > 5)

\* ------------------------------------------------ Orchestrator: error events
\* the places of the error events among the events execute has yielded
ErrorEvents == { i \in 1..Len(yielded) : yielded[i].type = "error" }

\* C40: a run of execute yields at most one error event, yields no complete
\* event after an error event (the one of the STT error callback included),
\* and does not leave the task COMPLETED once it has yielded an error event.
C40_ErrorEndsTheRun ==
    /\ Cardinality(ErrorEvents) <= 1
    /\ \A i \in ErrorEvents : \A j \in (i + 1)..Len(yielded) : yielded[j].type # "complete"
    /\ (opc = "done" /\ ErrorEvents # {}) => task.status # "completed"

\* a run in which no STT error item was taken from the queue yields at most
\* one error event, yields it last, and ends FAILED when it has yielded one
C40_HoldsWithoutSttError ==
    (\A i \in ErrorEvents : yielded[i] # ErrorEvent("stt error")) =>
        /\ Cardinality(ErrorEvents) <= 1
        /\ \A i \in ErrorEvents : i = Len(yielded)
        /\ (opc = "done" /\ ErrorEvents # {}) => task.status = "failed"

\* ------------------------------------------- Orchestrator: the audio prompts
\* the events of the buffer an invocation read
EventIds(buffer) == { buffer[i].event_id : i \in 1..Len(buffer) }

\* C34: in the audio flow, when the next STT event is about to be handled
\* after a triggered LLM invocation, the task is PERCEIVING and its buffer
\* holds no event an invocation has read (it was emptied); so every FINAL
\* event is in the prompt of at most one invocation.
C34_FinalInOnePromptOnly ==
    flow = "audio" =>
        /\ opc \in { "queue", "await_send" } =>
               /\ task.status = "perceiving"
               /\ \A k \in 1..Len(prompts) :
                      EventIds(task.perception_buffer) \cap EventIds(prompts[k]) = {}
        /\ \A k, l \in 1..Len(prompts) :
               k # l => EventIds(prompts[k]) \cap EventIds(prompts[l]) = {}
        /\ \A k \in 1..Len(prompts) :
               /\ prompts[k] # <<>>
               /\ \A i \in 1..Len(prompts[k]) : prompts[k][i].stage = "final"
               /\ \A i, j \in 1..Len(prompts[k]) :
                      i # j => prompts[k][i].event_id # prompts[k][j].event_id

\* two invocations in one run, one FINAL event each, and the queue being
\* read again
C34_Witness ==
    /\ flow = "audio" /\ opc = "queue"
    /\ Len(prompts) = 2
    /\ EventIds(prompts[1]) = { 1 } /\ EventIds(prompts[2]) = { 2 }
    /\ task.steps = 2
    /\ task.perception_buffer = <<>>

\* an invocation whose prompt holds two FINAL events, the first of which
\* had not triggered one
C34_TwoFinalsInOnePrompt ==
    /\ flow = "audio"
    /\ Len(prompts) = 1 /\ EventIds(prompts[1]) = { 1, 2 }

\* ------------------------------------------------ ProcessStream: LLM turns
\* the sentence_complete frames enqueued so far, in order
SentenceCompletes == SelectSeq(enq, IsSentenceComplete)

\* C35: the transcribed_text values of the sentence_complete frames are, in
\* order, a subsequence of the sentences pushed onto pending_sentences: each
\* frame carries the sentence of its turn, and the turns of successive
\* frames are later and later pushes.
C35_TurnsInPushOrder ==
    LET C == SentenceCompletes
    IN  /\ \A i \in 1..Len(C) :
               /\ C[i].turn \in 1..Len(pushed)
               /\ C[i].text = pushed[C[i].turn]
        /\ \A i, j \in 1..Len(C) : i < j => C[i].turn < C[j].turn

\* the two pushed sentences answered in push order
C35_Witness ==
    /\ Len(pushed) = 2
    /\ Len(SentenceCompletes) = 2
    /\ SentenceCompletes[1].turn = 1 /\ SentenceCompletes[2].turn = 2

\* the first sentence's turn failed and the second sentence was answered:
\* the frames are a proper subsequence of the pushes
C35_SkippedWitness ==
    /\ Len(pushed) = 2 /\ TurnFailed(1)
    /\ Len(SentenceCompletes) = 1 /\ SentenceCompletes[1].turn = 2

\* the worker tasks that exist and have not finished
LiveWorkers == { w \in Slots : WorkerLive(w) }

\* C36: whatever frames the client sends, more than one Start included, at
\* most one LLM worker task exists at any time, and so at most one LLM turn
\* is in progress.
C36_OneWorkerTask ==
    /\ Cardinality(LiveWorkers) <= 1
    /\ Cardinality(InTurn) <= 1

\* at most one LLM turn is in progress at any time, and with a single Start
\* at most one worker task exists
C36_OneTurnAtATime ==
    /\ Cardinality(InTurn) <= 1
    /\ Created <= 1 => Cardinality(LiveWorkers) <= 1

\* C37, the state: conversation_history is answer_index pairs, a user
\* message and then an assistant message each.
C37_HistoryPairs ==
    /\ Len(conversation_history) = 2 * answer_index
    /\ \A k \in 1..answer_index :
           /\ conversation_history[2 * k - 1].role = "user"
           /\ conversation_history[2 * k].role = "assistant"

\* C37, the step: answer_index does not decrease
C37_IndexStep == answer_index' >= answer_index

\* C37: at every reachable state of a stream conversation_history consists
\* of exactly answer_index complete pairs (length 2 * answer_index, user
\* then assistant), and answer_index never decreases.
C37_HistoryMatchesIndex == [](C37_HistoryPairs) /\ [][C37_IndexStep]_vars

\* two turns have completed
C37_Witness == answer_index = 2 /\ Len(conversation_history) = 4

\* the turns that ran to their end
CompletedTurns == { u \in 1..Len(pushed) : CompletesOf(u) # {} }

\* C38, the step: a turn that ends with the Error frame of chat_stream's
\* exception leaves conversation_history and answer_index as they were
C38_FailStep ==
    \A w \in Slots :
        (workers[w].pc = "turn" /\ Len(enq') > Len(enq)
            /\ Last(enq') = LlmErrorFrame(workers[w].sid))
        => /\ conversation_history' = conversation_history
           /\ answer_index' = answer_index

\* C38, the state: the history holds two messages for each completed turn
\* and nothing else, and a turn's prompt is the system prompt if any, that
\* history, and the turn's own sentence
C38_PromptState ==
    /\ Len(conversation_history) = 2 * Cardinality(CompletedTurns)
    /\ answer_index = Cardinality(CompletedTurns)
    /\ \A w \in InTurn :
           workers[w].messages =
               (IF config # <<>> THEN << Msg("system", config) >> ELSE <<>>)
                   \o conversation_history \o << Msg("user", workers[w].sentence) >>

\* C38: an LLM turn that fails with an exception leaves conversation_history
\* and answer_index unchanged, so that the prompt of the next turn holds
\* neither the failed sentence nor any part of its partial response.
C38_FailedTurnLeavesNoTrace == [](C38_PromptState) /\ [][C38_FailStep]_vars

\* the first turn failed after an Llm frame and the turn of the second
\* sentence is under way with a prompt that ends with its own sentence and
\* holds no message of the first
C38_Witness ==
    /\ TurnFailed(1) /\ LlmsOf(enq, 1) # <<>>
    /\ conversation_history = <<>>
    /\ \E w \in InTurn :
           /\ workers[w].sid = 2
           /\ Len(workers[w].messages) <= 2
           /\ Last(workers[w].messages) = Msg("user", workers[w].sentence)

====
